---- MODULE Spec2Model ----
(***************************************************************************)
(* Verification model of the SSH connectivity engine (src-tauri/src/ssh):  *)
(*   - SessionSshPool          (connection.rs)  specification Spec         *)
(*   - establish / teardown    (connection.rs)  specification SpecConn     *)
(*   - SshManager actor        (manager.rs)     specification SpecActor    *)
(*   - worker transport calls  (file_ops.rs)    specification SpecOps      *)
(***************************************************************************)
EXTENDS Integers, Sequences, FiniteSets, TLC

(***************************************************************************)
(* Bounds of the model.                                                    *)
(***************************************************************************)
\* capacities 0..MaxCapacity are explored for max_background_sessions
MaxCapacity == 2
\* background sessions established over one run of the pool
MaxSessions == 3
MaxQueue == 2
MaxChunks == 2
MaxCalls == 5

MaxLen == 3

MaxDepth == 2

MaxScript == 3

MaxWrites == 2

MaxAccepts == 2

MaxRebuilds == 2

Workers == {"w1", "w2"}
Monitor == "mon"
Admin == "adm"
Threads == Workers \cup {Monitor, Admin}
NoThread == "none"
Sessions == 1..MaxSessions
NoSession == 0

VARIABLES
    \* ---- SessionSshPool (connection.rs:73-80) ----
    max_background_sessions,  \* capacity of the background list
    background_sessions,      \* Vec<Arc<Mutex<ManagedSession>>>, as session ids
    next_bg_index,            \* round-robin cursor
    list_lock,                \* owner of the background_sessions mutex
    list_poisoned,            \* the list mutex was held by a thread that panicked
    session_lock,             \* owner of each session's own mutex
    conn,                     \* per session: "unborn", "live", "dead", "closed"
    main_conn,                \* the session in the primary slot: "live", "dead", "closed"
    next_id,                  \* id of the next session to be established
    pc,                       \* position of every thread
    held,                     \* the Arc clone a worker was handed (NoSession if none)
    scan_i,                   \* loop index of the thread holding the list lock
    drain_q,                  \* sessions still owned by close_all's drain(..)
    got_path,                 \* how the last get_background_session returned
    got_busy,                 \* whether the session handed out was locked at that moment
    \* ---- one establishment and the ManagedSession it yields (connection.rs) ----
    jump_host,                \* config.jump_host: "none", "empty" (Some("")) or "set"
    attempt,                  \* attempt number of establish_connection_with_retry
    epc,                      \* position inside establish_connection_internal
    last_err,                 \* stage at which the previous attempt failed
    sess,                     \* target session: "none", "open", "ready", "disconnected"
    jump_sess,                \* bastion session: "none", "open", "disconnected"
    listener,                 \* local forward listener: "none", "bound", "unblocked"
    fwd,                      \* forwarding thread: "none", "accept", "channel", "relay",
                              \* "write", "write_sleep", "exited"
    shutdown_signal,          \* the forwarding thread's shutdown flag
    joined,                   \* the forwarding thread has been joined
    ret,                      \* what the last failed attempt left behind when it returned
    tsteps,                   \* teardown steps still to run on the ManagedSession
    target_host,              \* config.host
    known_hosts,              \* ~/.ssh/known_hosts as a set of <<host, key>> entries
    vhk,                      \* what the last verify_host_key call saw and returned
    completed,                \* steps the current establish attempt has completed
    auth_type,                \* config.auth_type with config.key_content: password, key, key_no_content
    key_auth,                 \* how the last authentication ended and which transient files it left
    modes,                    \* settings of the target and bastion sessions the current attempt created
    delays,                   \* the sleeps of the current establish_connection_with_retry call, in ms
    accepts,                  \* connections the current forwarding thread accepted
    \* ---- SshManager (manager.rs:103-117) ----
    queue,                    \* commands sent to the actor and not yet received
    apc,                      \* position of SshManager::run
    batch,                    \* iterations done of the `for _ in 0..10` receive loop
    mgr_shutdown,             \* SshManager.shutdown_signal
    shell_channel,            \* Option<Channel>: "none", "open", "closed" (Some, after close())
    shell_sender,             \* Option<Sender<ShellMsg>>: "none", "set"
    sink,                     \* last message the shell sink received: "none", "Data", "Exit"
    shell_event,              \* last thing the actor did to its shell
    running,                  \* the long command handle_command is inside of, or "none"
    xfer_left,                \* chunks the running command still has to move
    reply,                    \* last non-shell command: its helper's result and the messages sent on its listener
    \* ---- worker operations on a background session (command.rs, file_ops.rs) ----
    op_pc,                    \* per operation: index of the transport call it is at
    op_result,                \* per operation: what it returned to its caller
    op_moved,                 \* per operation: chunks read so far
    op_cancel,                \* per operation: its cancel flag
    op_early,                 \* per operation: the flag was set before any data byte moved
    \* ---- file transfers with resume (ssh.rs, file_ops.rs) ----
    rs_in,                    \* the resume request: source, partial destination, digest tool
    rs_out,                   \* which entry point ran and where it starts writing
    \* ---- recursive delete (manager.rs, file_ops.rs) ----
    rm_tree,                  \* the remote tree when the delete was requested
    rm_fs,                    \* the remote tree now
    rm_stack,                 \* one frame per active call: its path and entries left
    rm_log,                   \* the unlink and rmdir calls issued, in order
    rm_pc,                    \* idle, run or done
    \* ---- one ssh2_retry call (utils.rs) ----
    rt_script,                \* what the calls of f yield, in order; would-block after that
    rt_calls,                 \* calls of f made so far
    rt_pc,                    \* call, sleep or done
    rt_ret,                   \* what ssh2_retry returned, or "none"
    \* ---- bytes of the shell writes (manager.rs ShellWrite, terminal.rs Data) ----
    sw_pc,                    \* recv or write
    sw_buf,                   \* rest of the payload write_all is writing
    sw_submitted,             \* every payload submitted while the shell is Open, in order
    sw_wire,                  \* bytes the shell channel accepted, in order
    sw_count,                 \* shell writes handled so far
    \* ---- disconnect(id) of the client that owns the pool (client.rs) ----
    disconnect_pc,            \* none, signalled (shutdown_signal stored) or closing
    \* ---- transfer records (file_ops.rs, client.rs cancel_transfer) ----
    ts_status,                \* per transfer: data.status
    ts_cancel_flag,           \* per transfer: TransferState.cancel_flag
    ts_pc,                    \* per transfer: position of its worker
    ts_cpc,                   \* per transfer: position of cancel_transfer
    \* ---- the shell thread on the primary session (terminal.rs) ----
    main_gen,                 \* how many times the primary slot was refilled
    shell_gen,                \* main_gen of the session the shell channel was opened on
    shell_tpc,                \* starting, open or exited
    \* ---- concurrent verify_host_key calls on the known_hosts file ----
    kh_file,                  \* entries in ~/.ssh/known_hosts
    kh_added,                 \* entries some call added and wrote
    vk_pc,                    \* per call: idle, loaded, added or done
    vk_mem,                   \* per call: its in-memory known hosts
    vk_host                   \* per call: the host it connects to

poolVars ==
    <<max_background_sessions, background_sessions, next_bg_index, list_lock,
      list_poisoned, session_lock, conn, main_conn, next_id, pc, held, scan_i,
      drain_q, got_path, got_busy>>

trustVars == <<target_host, known_hosts, vhk>>

authVars == <<auth_type, key_auth>>

connVars ==
    <<jump_host, attempt, epc, last_err, sess, jump_sess, listener, fwd,
      shutdown_signal, joined, ret, tsteps, trustVars, completed, authVars, modes,
      delays, accepts>>

actorVars ==
    <<queue, apc, batch, mgr_shutdown, shell_channel, shell_sender, sink,
      shell_event, running, xfer_left, reply>>

opsVars == <<op_pc, op_result, op_moved, op_cancel, op_early>>

resumeVars == <<rs_in, rs_out>>

rmVars == <<rm_tree, rm_fs, rm_stack, rm_log, rm_pc>>

retryVars == <<rt_script, rt_calls, rt_pc, rt_ret>>

swVars == <<sw_pc, sw_buf, sw_submitted, sw_wire, sw_count>>

fileVars == <<resumeVars, rmVars, retryVars, swVars>>

transferVars == <<ts_status, ts_cancel_flag, ts_pc, ts_cpc>>

shellThreadVars == <<main_gen, shell_gen, shell_tpc>>

storeVars == <<kh_file, kh_added, vk_pc, vk_mem, vk_host>>

clientVars == <<disconnect_pc, transferVars, shellThreadVars, storeVars>>

vars == <<poolVars, connVars, actorVars, opsVars, fileVars, clientVars>>

notClient == <<connVars, actorVars, opsVars, fileVars>>

notPool == <<connVars, actorVars, opsVars, fileVars, clientVars>>

notConn == <<poolVars, actorVars, opsVars, fileVars, clientVars>>

notActor == <<poolVars, connVars, opsVars, fileVars, clientVars>>

notOps == <<poolVars, connVars, actorVars, fileVars, clientVars>>

notFiles == <<poolVars, connVars, actorVars, opsVars, clientVars>>

(***************************************************************************)
(* Helpers                                                                 *)
(***************************************************************************)
Range(s) == {s[i] : i \in 1..Len(s)}

RemoveAt(s, i) == SubSeq(s, 1, i - 1) \o SubSeq(s, i + 1, Len(s))

\* a lock() that never waits
LockFree_always(locks, s) == TRUE

\* Mutex::lock on a session returns once no other thread holds the guard
LockFree(locks, s) == locks[s] = NoThread

\* An Arc<Mutex<ManagedSession>> is referenced by the list, by a drain in
\* progress, or by a caller that was handed a clone.
Referenced(s, list, h, dq) ==
    \/ s \in Range(list)
    \/ s \in Range(dq)
    \/ \E w \in Workers : h[w] = s

\* impl Drop for ManagedSession: when the last Arc goes away the session is
\* disconnected.
DropUnreferenced(c, list, h, dq) ==
    [s \in Sessions |->
        IF c[s] \in {"live", "dead"} /\ ~Referenced(s, list, h, dq)
        THEN "closed" ELSE c[s]]

\* a try_lock that reports every session as free
try_lock_always(s) == s \in Sessions

\* Mutex::try_lock succeeds iff nobody holds the session's lock.
try_lock(s) == session_lock[s] = NoThread

\* a probe whose guard outlives the return
AfterProbe_kept(locks, s, w) == [locks EXCEPT ![s] = w]

\* connection.rs:111-114  `if let Ok(_guard) = session.try_lock()`: the guard
\* is dropped when the function returns the clone
AfterProbe(locks, s, w) == locks

\* an off-by-one capacity test
BelowCapacity_inclusive(list, cap) == Len(list) <= cap

\* connection.rs:118  sessions.len() < self.max_background_sessions
BelowCapacity(list, cap) == Len(list) < cap

\* connection.rs:147  the liveness probe (keepalive_send through ssh2_retry)
ProbeOk(c) == c = "live"

\* a cursor that does not move on
Advance_stuck(index, n) == index % n

\* connection.rs:133  *index = (*index + 1) % sessions.len()
Advance(index, n) == (index + 1) % n

\* a drain that leaves the elements in the list
AfterDrain_keep(list) == list

\* connection.rs:236  sessions.drain(..) takes every element out of the Vec
AfterDrain(list) == SubSeq(list, 1, 0)

(***************************************************************************)
(* SessionSshPool::new (connection.rs:83-98): the primary session is       *)
(* established, the background list is empty, the cursor is 0.  The        *)
(* capacity comes unvalidated from the settings (client.rs:134).           *)
(***************************************************************************)
Verifiers == {"v1", "v2", "v3"}

StoreIdle ==
    /\ kh_file = {}
    /\ kh_added = {}
    /\ vk_pc = [v \in Verifiers |-> "idle"]
    /\ vk_mem = [v \in Verifiers |-> {}]
    /\ vk_host = [v \in Verifiers |-> "h1"]

ShellThreadIdle ==
    /\ main_gen = 0
    /\ shell_gen = 0
    /\ shell_tpc = "starting"

Transfers == {"t1", "t2"}

\* file_ops.rs:666, 932  status: "pending", shared cancel flag clear
TransferIdle ==
    /\ ts_status = [x \in Transfers |-> "pending"]
    /\ ts_cancel_flag = [x \in Transfers |-> FALSE]
    /\ ts_pc = [x \in Transfers |-> "spawned"]
    /\ ts_cpc = [x \in Transfers |-> "idle"]

PoolInit ==
    /\ max_background_sessions \in 0..MaxCapacity
    /\ background_sessions = <<>>
    /\ next_bg_index = 0
    /\ list_lock = NoThread
    /\ list_poisoned = FALSE
    /\ session_lock = [s \in Sessions |-> NoThread]
    /\ conn = [s \in Sessions |-> "unborn"]
    /\ main_conn = "live"
    /\ next_id = 1
    /\ pc = [t \in Threads |-> "idle"]
    /\ held = [w \in Workers |-> NoSession]
    /\ scan_i = 0
    /\ drain_q = <<>>
    /\ got_path = [w \in Workers |-> "none"]
    /\ got_busy = [w \in Workers |-> FALSE]
    /\ disconnect_pc = "none"
    /\ TransferIdle
    /\ ShellThreadIdle
    /\ StoreIdle

(***************************************************************************)
(* get_background_session (connection.rs:106-137), called by a worker      *)
(* (command.rs:43-48, file_ops.rs:713-716).                                *)
(***************************************************************************)
\* the worker calls get_background_session and waits for the list lock
get_background_session_call(w) ==
    /\ pc[w] = "idle"
    /\ pc' = [pc EXCEPT ![w] = "gb_lock"]
    /\ UNCHANGED <<max_background_sessions, background_sessions, next_bg_index,
                   list_lock, list_poisoned, session_lock, conn, main_conn,
                   next_id, held, scan_i, drain_q, got_path, got_busy>>
    /\ UNCHANGED notPool

\* connection.rs:107  self.background_sessions.lock().map_err(..)?
get_background_session_lock(w) ==
    /\ pc[w] = "gb_lock"
    /\ list_lock = NoThread
    /\ IF list_poisoned
       THEN /\ pc' = [pc EXCEPT ![w] = "idle"]
            /\ UNCHANGED <<list_lock, scan_i>>
       ELSE /\ pc' = [pc EXCEPT ![w] = "gb_scan"]
            /\ list_lock' = w
            /\ scan_i' = 1
    /\ UNCHANGED <<max_background_sessions, background_sessions, next_bg_index,
                   list_poisoned, session_lock, conn, main_conn, next_id, held,
                   drain_q, got_path, got_busy>>
    /\ UNCHANGED notPool

\* connection.rs:110-115  one iteration of the idle scan: try_lock, and on
\* success drop the guard at once and return the clone
get_background_session_scan(w) ==
    /\ pc[w] = "gb_scan"
    /\ scan_i <= Len(background_sessions)
    /\ LET s == background_sessions[scan_i] IN
       IF try_lock(s)
       THEN /\ held' = [held EXCEPT ![w] = s]
            /\ got_path' = [got_path EXCEPT ![w] = "idle"]
            /\ got_busy' = [got_busy EXCEPT ![w] = session_lock[s] # NoThread]
            /\ session_lock' = AfterProbe(session_lock, s, w)
            /\ list_lock' = NoThread
            /\ scan_i' = 0
            /\ pc' = [pc EXCEPT ![w] = "got"]
       ELSE /\ scan_i' = scan_i + 1
            /\ UNCHANGED <<held, got_path, got_busy, list_lock, pc, session_lock>>
    /\ UNCHANGED <<max_background_sessions, background_sessions, next_bg_index,
                   list_poisoned, conn, main_conn, next_id, drain_q>>
    /\ UNCHANGED notPool

\* connection.rs:118-122  no idle session and below capacity: stagger (sleep
\* 100 ms when the list is not empty), still holding the list lock
get_background_session_grow(w) ==
    /\ pc[w] = "gb_scan"
    /\ scan_i > Len(background_sessions)
    /\ BelowCapacity(background_sessions, max_background_sessions)
    /\ pc' = [pc EXCEPT ![w] =
                 IF background_sessions # <<>> THEN "gb_sleep" ELSE "gb_establish"]
    /\ UNCHANGED <<max_background_sessions, background_sessions, next_bg_index,
                   list_lock, list_poisoned, session_lock, conn, main_conn,
                   next_id, held, scan_i, drain_q, got_path, got_busy>>
    /\ UNCHANGED notPool

\* connection.rs:121  thread::sleep(Duration::from_millis(100))
get_background_session_sleep(w) ==
    /\ pc[w] = "gb_sleep"
    /\ pc' = [pc EXCEPT ![w] = "gb_establish"]
    /\ UNCHANGED <<max_background_sessions, background_sessions, next_bg_index,
                   list_lock, list_poisoned, session_lock, conn, main_conn,
                   next_id, held, scan_i, drain_q, got_path, got_busy>>
    /\ UNCHANGED notPool

\* connection.rs:124-127  establish_connection_with_retry(&self.config)?,
\* push and return; an Err leaves the list as it was
get_background_session_establish(w) ==
    /\ pc[w] = "gb_establish"
    /\ \E ok \in BOOLEAN :
        IF ok
        THEN /\ next_id <= MaxSessions
             /\ conn' = [conn EXCEPT ![next_id] = "live"]
             /\ background_sessions' = Append(background_sessions, next_id)
             /\ held' = [held EXCEPT ![w] = next_id]
             /\ got_path' = [got_path EXCEPT ![w] = "new"]
             /\ got_busy' = [got_busy EXCEPT ![w] = session_lock[next_id] # NoThread]
             /\ next_id' = next_id + 1
             /\ pc' = [pc EXCEPT ![w] = "got"]
        ELSE /\ pc' = [pc EXCEPT ![w] = "idle"]
             /\ UNCHANGED <<conn, background_sessions, held, got_path, got_busy,
                            next_id>>
    /\ list_lock' = NoThread
    /\ scan_i' = 0
    /\ UNCHANGED <<max_background_sessions, next_bg_index, list_poisoned,
                   session_lock, main_conn, drain_q>>
    /\ UNCHANGED notPool

\* connection.rs:131-136  at capacity and every session busy: round robin.
\* With an empty list `*index % sessions.len()` divides by zero: the thread
\* panics while it holds the list lock, which poisons the mutex.
get_background_session_round_robin(w) ==
    /\ pc[w] = "gb_scan"
    /\ scan_i > Len(background_sessions)
    /\ ~BelowCapacity(background_sessions, max_background_sessions)
    /\ IF Len(background_sessions) = 0
       THEN /\ list_poisoned' = TRUE
            /\ pc' = [pc EXCEPT ![w] = "panicked"]
            /\ UNCHANGED <<held, got_path, got_busy, next_bg_index>>
       ELSE LET n == Len(background_sessions)
                s == background_sessions[(next_bg_index % n) + 1]
            IN /\ held' = [held EXCEPT ![w] = s]
               /\ got_path' = [got_path EXCEPT ![w] = "rr"]
               /\ got_busy' = [got_busy EXCEPT ![w] = session_lock[s] # NoThread]
               /\ next_bg_index' = Advance(next_bg_index, n)
               /\ pc' = [pc EXCEPT ![w] = "got"]
               /\ UNCHANGED list_poisoned
    /\ list_lock' = NoThread
    /\ scan_i' = 0
    /\ UNCHANGED <<max_background_sessions, background_sessions, session_lock,
                   conn, main_conn, next_id, drain_q>>
    /\ UNCHANGED notPool

\* command.rs:48  let sess = bg_session.lock().unwrap();
worker_lock(w) ==
    /\ pc[w] = "got"
    /\ LockFree(session_lock, held[w])
    /\ session_lock' = [session_lock EXCEPT ![held[w]] = w]
    /\ pc' = [pc EXCEPT ![w] = "locked"]
    /\ UNCHANGED <<max_background_sessions, background_sessions, next_bg_index,
                   list_lock, list_poisoned, conn, main_conn, next_id, held,
                   scan_i, drain_q, got_path, got_busy>>
    /\ UNCHANGED notPool

\* command.rs:83  end of the closure: the guard and the Arc clone are dropped
worker_release(w) ==
    /\ pc[w] = "locked"
    /\ session_lock' = [session_lock EXCEPT ![held[w]] = NoThread]
    /\ held' = [held EXCEPT ![w] = NoSession]
    /\ got_path' = [got_path EXCEPT ![w] = "none"]
    /\ got_busy' = [got_busy EXCEPT ![w] = FALSE]
    /\ conn' = DropUnreferenced(conn, background_sessions, held', drain_q)
    /\ pc' = [pc EXCEPT ![w] = "idle"]
    /\ UNCHANGED <<max_background_sessions, background_sessions, next_bg_index,
                   list_lock, list_poisoned, main_conn, next_id, scan_i, drain_q>>
    /\ UNCHANGED notPool

\* the network drops an established connection
connection_lost(s) ==
    /\ conn[s] = "live"
    /\ conn' = [conn EXCEPT ![s] = "dead"]
    /\ UNCHANGED <<max_background_sessions, background_sessions, next_bg_index,
                   list_lock, list_poisoned, session_lock, main_conn, next_id,
                   pc, held, scan_i, drain_q, got_path, got_busy>>
    /\ UNCHANGED notPool

\* the network drops the primary connection
main_connection_lost ==
    /\ main_conn = "live"
    /\ main_conn' = "dead"
    /\ UNCHANGED <<max_background_sessions, background_sessions, next_bg_index,
                   list_lock, list_poisoned, session_lock, conn, next_id,
                   pc, held, scan_i, drain_q, got_path, got_busy>>
    /\ UNCHANGED notPool

(***************************************************************************)
(* cleanup_disconnected (connection.rs:140-169) and heartbeat_check        *)
(* (connection.rs:172-190), both run by the monitor task (client.rs:168).  *)
(***************************************************************************)
\* client.rs:173-176  the cleanup tick
cleanup_disconnected_call ==
    /\ pc[Monitor] = "idle"
    /\ pc' = [pc EXCEPT ![Monitor] = "cl_lock"]
    /\ UNCHANGED <<max_background_sessions, background_sessions, next_bg_index,
                   list_lock, list_poisoned, session_lock, conn, main_conn,
                   next_id, held, scan_i, drain_q, got_path, got_busy>>
    /\ UNCHANGED notPool

\* connection.rs:142  if let Ok(mut sessions) = self.background_sessions.lock()
\* (a poisoned list skips to the primary keepalive of connection.rs:165-168)
cleanup_disconnected_lock ==
    /\ pc[Monitor] = "cl_lock"
    /\ list_lock = NoThread
    /\ IF list_poisoned
       THEN /\ pc' = [pc EXCEPT ![Monitor] = "idle"]
            /\ UNCHANGED <<list_lock, scan_i>>
       ELSE /\ pc' = [pc EXCEPT ![Monitor] = "cl_retain"]
            /\ list_lock' = Monitor
            /\ scan_i' = 1
    /\ UNCHANGED <<max_background_sessions, background_sessions, next_bg_index,
                   list_poisoned, session_lock, conn, main_conn, next_id, held,
                   drain_q, got_path, got_busy>>
    /\ UNCHANGED notPool

\* connection.rs:143-144  retain: session.lock() on the next element, a
\* blocking acquisition made while the list lock is held
cleanup_disconnected_session_lock ==
    /\ pc[Monitor] = "cl_retain"
    /\ scan_i <= Len(background_sessions)
    /\ LockFree(session_lock, background_sessions[scan_i])
    /\ session_lock' = [session_lock EXCEPT ![background_sessions[scan_i]] = Monitor]
    /\ pc' = [pc EXCEPT ![Monitor] = "cl_probe"]
    /\ UNCHANGED <<max_background_sessions, background_sessions, next_bg_index,
                   list_lock, list_poisoned, conn, main_conn, next_id, held,
                   scan_i, drain_q, got_path, got_busy>>
    /\ UNCHANGED notPool

\* connection.rs:147-150  the probe; Ok keeps the element, Err removes it
\* (and drops the list's Arc)
cleanup_disconnected_probe ==
    /\ pc[Monitor] = "cl_probe"
    /\ LET s == background_sessions[scan_i] IN
        /\ session_lock' = [session_lock EXCEPT ![s] = NoThread]
        /\ IF ProbeOk(conn[s])
           THEN /\ scan_i' = scan_i + 1
                /\ UNCHANGED <<background_sessions, conn>>
           ELSE /\ background_sessions' = RemoveAt(background_sessions, scan_i)
                /\ conn' = DropUnreferenced(conn, background_sessions', held, drain_q)
                /\ UNCHANGED scan_i
    /\ pc' = [pc EXCEPT ![Monitor] = "cl_retain"]
    /\ UNCHANGED <<max_background_sessions, next_bg_index, list_lock,
                   list_poisoned, main_conn, next_id, held, drain_q, got_path,
                   got_busy>>
    /\ UNCHANGED notPool

\* connection.rs:157  after retain: a non-empty list ends the locked block;
\* connection.rs:165-168 then sends the primary keepalive
cleanup_disconnected_done ==
    /\ pc[Monitor] = "cl_retain"
    /\ scan_i > Len(background_sessions)
    /\ background_sessions # <<>>
    /\ list_lock' = NoThread
    /\ scan_i' = 0
    /\ pc' = [pc EXCEPT ![Monitor] = "idle"]
    /\ UNCHANGED <<max_background_sessions, background_sessions, next_bg_index,
                   list_poisoned, session_lock, conn, main_conn, next_id, held,
                   drain_q, got_path, got_busy>>
    /\ UNCHANGED notPool

\* connection.rs:157-158  the list is empty: go on to establish one session
cleanup_disconnected_empty ==
    /\ pc[Monitor] = "cl_retain"
    /\ scan_i > Len(background_sessions)
    /\ background_sessions = <<>>
    /\ pc' = [pc EXCEPT ![Monitor] = "cl_ensure"]
    /\ UNCHANGED <<max_background_sessions, background_sessions, next_bg_index,
                   list_lock, list_poisoned, session_lock, conn, main_conn,
                   next_id, held, scan_i, drain_q, got_path, got_busy>>
    /\ UNCHANGED notPool

\* connection.rs:158-160  establish_connection_with_retry under the list
\* lock; Ok pushes the session, Err is ignored
cleanup_disconnected_ensure ==
    /\ pc[Monitor] = "cl_ensure"
    /\ \E ok \in BOOLEAN :
        IF ok
        THEN /\ next_id <= MaxSessions
             /\ conn' = [conn EXCEPT ![next_id] = "live"]
             /\ background_sessions' = Append(background_sessions, next_id)
             /\ next_id' = next_id + 1
        ELSE UNCHANGED <<conn, background_sessions, next_id>>
    /\ list_lock' = NoThread
    /\ scan_i' = 0
    /\ pc' = [pc EXCEPT ![Monitor] = "idle"]
    /\ UNCHANGED <<max_background_sessions, next_bg_index, list_poisoned,
                   session_lock, main_conn, held, drain_q, got_path, got_busy>>
    /\ UNCHANGED notPool

\* client.rs:177-181  the heartbeat tick
heartbeat_check_call ==
    /\ pc[Monitor] = "idle"
    /\ pc' = [pc EXCEPT ![Monitor] = "hb_probe"]
    /\ UNCHANGED <<max_background_sessions, background_sessions, next_bg_index,
                   list_lock, list_poisoned, session_lock, conn, main_conn,
                   next_id, held, scan_i, drain_q, got_path, got_busy>>
    /\ UNCHANGED notPool

\* connection.rs:176-184  probe the primary (is_session_alive); a dead
\* primary leads to rebuild_main, a live one straight to the cleanup
heartbeat_check_probe ==
    /\ pc[Monitor] = "hb_probe"
    /\ pc' = [pc EXCEPT ![Monitor] =
                 IF ProbeOk(main_conn) THEN "cl_lock" ELSE "hb_establish"]
    /\ UNCHANGED <<max_background_sessions, background_sessions, next_bg_index,
                   list_lock, list_poisoned, session_lock, conn, main_conn,
                   next_id, held, scan_i, drain_q, got_path, got_busy>>
    /\ UNCHANGED notPool

\* connection.rs:260-273  rebuild_main: establish outside any lock, then
\* replace the primary; `self.rebuild_main()?` returns on Err
heartbeat_check_rebuild_main_step ==
    /\ pc[Monitor] = "hb_establish"
    /\ \E ok \in BOOLEAN :
        IF ok
        THEN /\ main_conn' = "live"
             /\ pc' = [pc EXCEPT ![Monitor] = "cl_lock"]
        ELSE /\ pc' = [pc EXCEPT ![Monitor] = "idle"]
             /\ UNCHANGED main_conn
    /\ UNCHANGED <<max_background_sessions, background_sessions, next_bg_index,
                   list_lock, list_poisoned, session_lock, conn, next_id, held,
                   scan_i, drain_q, got_path, got_busy>>

heartbeat_check_rebuild_main ==
    /\ heartbeat_check_rebuild_main_step
    /\ UNCHANGED notPool

(***************************************************************************)
(* close_all (connection.rs:212-258) and rebuild_all (connection.rs:       *)
(* 277-297), called from disconnect and cleanup_and_reconnect              *)
(* (client.rs:216-262).                                                    *)
(***************************************************************************)
\* connection.rs:214-232  tear the primary down
close_all_main_step ==
    /\ pc[Admin] = "idle"
    /\ main_conn' = "closed"
    /\ pc' = [pc EXCEPT ![Admin] = "ca_lock"]
    /\ UNCHANGED <<max_background_sessions, background_sessions, next_bg_index,
                   list_lock, list_poisoned, session_lock, conn, next_id, held,
                   scan_i, drain_q, got_path, got_busy>>

close_all_main ==
    /\ close_all_main_step
    /\ UNCHANGED notPool

\* connection.rs:235-236  lock the list and start sessions.drain(..), which
\* takes every element out of the list
close_all_lock ==
    /\ pc[Admin] = "ca_lock"
    /\ list_lock = NoThread
    /\ IF list_poisoned
       THEN /\ pc' = [pc EXCEPT ![Admin] = "idle"]
            /\ UNCHANGED <<list_lock, drain_q, background_sessions>>
       ELSE /\ pc' = [pc EXCEPT ![Admin] = "ca_drain"]
            /\ list_lock' = Admin
            /\ drain_q' = background_sessions
            /\ background_sessions' = AfterDrain(background_sessions)
    /\ UNCHANGED <<max_background_sessions, next_bg_index, list_poisoned,
                   session_lock, conn, main_conn, next_id, held, scan_i,
                   got_path, got_busy>>
    /\ UNCHANGED notPool

\* connection.rs:237  session.lock() on the next drained element, a blocking
\* acquisition made while the list lock is held
close_all_session_lock ==
    /\ pc[Admin] = "ca_drain"
    /\ drain_q # <<>>
    /\ LockFree(session_lock, Head(drain_q))
    /\ session_lock' = [session_lock EXCEPT ![Head(drain_q)] = Admin]
    /\ pc' = [pc EXCEPT ![Admin] = "ca_teardown"]
    /\ UNCHANGED <<max_background_sessions, background_sessions, next_bg_index,
                   list_lock, list_poisoned, conn, main_conn, next_id, held,
                   scan_i, drain_q, got_path, got_busy>>
    /\ UNCHANGED notPool

\* connection.rs:238-255  join the forwarding thread, disconnect the bastion
\* and the session, unblock the listener; then the guard and the Arc go
close_all_teardown ==
    /\ pc[Admin] = "ca_teardown"
    /\ LET s == Head(drain_q) IN
        /\ conn' = [conn EXCEPT ![s] = "closed"]
        /\ session_lock' = [session_lock EXCEPT ![s] = NoThread]
    /\ drain_q' = Tail(drain_q)
    /\ pc' = [pc EXCEPT ![Admin] = "ca_drain"]
    /\ UNCHANGED <<max_background_sessions, background_sessions, next_bg_index,
                   list_lock, list_poisoned, main_conn, next_id, held, scan_i,
                   got_path, got_busy>>
    /\ UNCHANGED notPool

\* connection.rs:256-258  the drain is exhausted: release the list lock
close_all_done ==
    /\ pc[Admin] = "ca_drain"
    /\ drain_q = <<>>
    /\ list_lock' = NoThread
    /\ pc' = [pc EXCEPT ![Admin] = "idle"]
    /\ UNCHANGED <<max_background_sessions, background_sessions, next_bg_index,
                   list_poisoned, session_lock, conn, main_conn, next_id, held,
                   scan_i, drain_q, got_path, got_busy>>
    /\ UNCHANGED notPool

\* connection.rs:279  self.rebuild_main()?  (connection.rs:260-273)
rebuild_all_main_step ==
    /\ pc[Admin] = "idle"
    /\ \E ok \in BOOLEAN :
        IF ok
        THEN /\ main_conn' = "live"
             /\ pc' = [pc EXCEPT ![Admin] = "ra_clear"]
        ELSE UNCHANGED <<main_conn, pc>>
    /\ UNCHANGED <<max_background_sessions, background_sessions, next_bg_index,
                   list_lock, list_poisoned, session_lock, conn, next_id, held,
                   scan_i, drain_q, got_path, got_busy>>

rebuild_all_main ==
    /\ rebuild_all_main_step
    /\ UNCHANGED notPool

\* connection.rs:282-285  lock the list, clear it (dropping the list's Arcs),
\* unlock; a poisoned list returns Err
rebuild_all_clear ==
    /\ pc[Admin] = "ra_clear"
    /\ list_lock = NoThread
    /\ IF list_poisoned
       THEN UNCHANGED <<background_sessions, conn>>
       ELSE /\ background_sessions' = <<>>
            /\ conn' = DropUnreferenced(conn, <<>>, held, drain_q)
    /\ pc' = [pc EXCEPT ![Admin] = "idle"]
    /\ UNCHANGED <<max_background_sessions, next_bg_index, list_lock,
                   list_poisoned, session_lock, main_conn, next_id, held,
                   scan_i, drain_q, got_path, got_busy>>
    /\ UNCHANGED notPool



(***************************************************************************)
(* establish_connection_with_retry (connection.rs:300-318) and             *)
(* establish_connection_internal (connection.rs:320-602): one connection   *)
(* being established, step by step, with the forwarding thread it spawns   *)
(* when a jump host is configured (connection.rs:380-479).                 *)
(***************************************************************************)
\* mod.rs:6
CONNECTION_RETRY_MAX_ATTEMPTS == 3

\* mod.rs:5  in milliseconds
CONNECTION_RETRY_BASE_DELAY == 1000

JumpHosts == {"none", "empty", "set"}

\* Session::new(): blocking, no keepalive, not authenticated, host key not
\* checked; nb_after is what had been done to the session when it was
\* switched to non-blocking, checked_first whether the host key had been
\* checked when the credentials were sent
NewSession ==
    [authed |-> FALSE, keepalive |-> FALSE, blocking |-> TRUE, nb_after |-> {},
     checked |-> FALSE, checked_first |-> FALSE]

\* connection.rs:516  verify_host_key(&sess, ..) returned Ok
HostKeyChecked(m) == [m EXCEPT !.checked = TRUE]

NoModes == [sess |-> NewSession, jump |-> NewSession]

\* userauth_password / userauth_pubkey_file returned Ok
Authenticated(m) == [m EXCEPT !.authed = TRUE, !.checked_first = m.checked]

\* connection.rs:591, 350  set_keepalive(true, 15)
set_keepalive(m) == [m EXCEPT !.keepalive = TRUE]

\* connection.rs:594, 353  set_blocking(false)
set_blocking(m) ==
    [m EXCEPT !.blocking = FALSE,
              !.nb_after = (IF m.authed THEN {"auth"} ELSE {})
                           \cup (IF m.keepalive THEN {"keepalive"} ELSE {})]

\* the two settings in the other order
SwitchThenEnable(m) == set_keepalive(set_blocking(m))

\* connection.rs:590-594, 349-353  keepalive first, then non-blocking
EnableThenSwitch(m) == set_blocking(set_keepalive(m))

NoRet == [spawned |-> FALSE, signal |-> FALSE, joined |-> FALSE, jump |-> "none"]

\* what one call on the non-blocking transport yields
TransportResults == {"Ok", "WouldBlock", "Error"}

\* connection.rs:423-469  the thread is inside its relay loop
RelayPhases == {"relay", "write", "write_sleep"}

ConnIdle ==
    /\ attempt = 0
    /\ epc = "idle"
    /\ last_err = "none"
    /\ sess = "none"
    /\ jump_sess = "none"
    /\ listener = "none"
    /\ fwd = "none"
    /\ shutdown_signal = FALSE
    /\ joined = FALSE
    /\ ret = NoRet
    /\ tsteps = <<>>
    /\ completed = {}
    /\ modes = NoModes
    /\ delays = <<>>
    /\ accepts = 0

Hosts == {"h1", "h2"}

HostKeys == {"k1", "k2"}

NoCheck == [check |-> "none", key |-> "k1", before |-> {}, ok |-> FALSE]

\* no verification has run yet and the trust store is empty
TrustIdle ==
    /\ target_host = "h1"
    /\ known_hosts = {}
    /\ vhk = NoCheck

\* a check that accepts whatever key a host presents
CheckPort_trusting(store, h, k) ==
    IF <<h, k>> \in store THEN "Match" ELSE "NotFound"

\* connection.rs:634  known_hosts.check_port(host, port, key)
CheckPort(store, h, k) ==
    IF <<h, k>> \in store THEN "Match"
    ELSE IF \E kk \in HostKeys : <<h, kk>> \in store THEN "Mismatch"
    ELSE "NotFound"

AuthTypes == {"password", "key", "key_no_content"}

NoKeyAuth == [outcome |-> "none", key |-> FALSE, pub |-> FALSE]

AuthIdle ==
    /\ auth_type = "password"
    /\ key_auth = NoKeyAuth

\* connection.rs:518-588  the ways authentication can end, by auth type
AuthOutcomes(at) ==
    IF at = "key"
    THEN {"write_key_failed", "ppk", "parse_failed", "write_pub_failed",
          "auth_failed", "auth_ok"}
    ELSE IF at = "key_no_content" THEN {"no_content"}
    ELSE {"auth_failed", "auth_ok"}

\* connection.rs:530-570  the transient files left behind.  std::fs::write
\* creates the file before it writes, so a failed write leaves either no
\* file or a partial one; remove_file is taken to succeed.
KeyAuth(outcome, partial) ==
    [outcome |-> outcome,
     key |-> outcome = "write_key_failed" /\ partial,
     pub |-> outcome = "write_pub_failed" /\ partial]

\* a test that takes every Some(..) for a jump host
UsesJump_some(j) == j # "none"

\* connection.rs:326-327  Some(jump_host) with a non-empty trimmed name
UsesJump(j) == j = "set"

\* an attempt that starts at authentication
FirstStep_auth(j) == "auth"

\* first step of an attempt: connection.rs:333 or connection.rs:500/507
FirstStep(j) == IF UsesJump(j) THEN "jump_connect" ELSE "connect"

RECURSIVE Pow2(_)
\* 2_u32.pow(n)
Pow2(n) == IF n = 0 THEN 1 ELSE 2 * Pow2(n - 1)

\* a delay computed from the one-based attempt number
Delay_onebased(att) == CONNECTION_RETRY_BASE_DELAY * Pow2(att)

\* connection.rs:312  CONNECTION_RETRY_BASE_DELAY * 2_u32.pow(attempt - 1)
Delay(att) == CONNECTION_RETRY_BASE_DELAY * Pow2(att - 1)

\* connection.rs:304-314  the decision taken on Err(e): a further attempt is
\* made unless this was the last one; the error itself is not inspected
ShouldRetry(att, stage) == att < CONNECTION_RETRY_MAX_ATTEMPTS

\* An attempt returns Err through `?`: the locals (session, bastion session,
\* listener, JoinHandle, shutdown flag) are dropped as they are.  ret keeps
\* what the attempt left behind at that moment.
AttemptFailed(stage) ==
    /\ last_err' = stage
    /\ ret' = [spawned |-> fwd # "none", signal |-> shutdown_signal,
               joined |-> joined, jump |-> jump_sess]
    /\ sess' = "none"
    /\ jump_sess' = "none"
    /\ listener' = "none"
    /\ fwd' = "none"
    /\ epc' = IF ShouldRetry(attempt, stage) THEN "backoff" ELSE "done_err"
    /\ UNCHANGED <<jump_host, attempt, shutdown_signal, joined, tsteps>>
    /\ UNCHANGED completed
    /\ UNCHANGED modes

\* connection.rs:301-302  first iteration of the retry loop
establish_connection_with_retry ==
    /\ epc = "idle"
    /\ attempt' = 1
    /\ epc' = FirstStep(jump_host)
    /\ UNCHANGED <<jump_host, last_err, sess, jump_sess, listener, fwd,
                   shutdown_signal, joined, ret, tsteps>>
    /\ UNCHANGED trustVars
    /\ UNCHANGED authVars
    /\ modes' = NoModes
    /\ completed' = {}
    /\ delays' = <<>>
    /\ UNCHANGED accepts
    /\ UNCHANGED notConn

\* connection.rs:312-313  sleep base delay * 2^(attempt-1), then go round
retry_backoff ==
    /\ epc = "backoff"
    /\ attempt' = attempt + 1
    /\ epc' = FirstStep(jump_host)
    /\ UNCHANGED <<jump_host, last_err, sess, jump_sess, listener, fwd,
                   shutdown_signal, joined, ret, tsteps>>
    /\ UNCHANGED trustVars
    /\ UNCHANGED authVars
    /\ modes' = NoModes
    /\ completed' = {}
    /\ delays' = Append(delays, Delay(attempt))
    /\ UNCHANGED accepts
    /\ UNCHANGED notConn

\* connection.rs:333-334  connect_with_timeout to the jump host
jump_connect ==
    /\ epc = "jump_connect"
    /\ \E ok \in BOOLEAN :
        IF ok
        THEN /\ jump_sess' = "open"
             /\ modes' = [modes EXCEPT !.jump = NewSession]
             /\ epc' = "jump_handshake"
             /\ UNCHANGED <<jump_host, attempt, last_err, sess, listener, fwd,
                            shutdown_signal, joined, ret, tsteps>>
        ELSE AttemptFailed("jump_connect")
    /\ UNCHANGED trustVars
    /\ UNCHANGED authVars
    /\ UNCHANGED completed
    /\ UNCHANGED delays
    /\ UNCHANGED accepts
    /\ UNCHANGED notConn

\* connection.rs:338-340  jump_sess.handshake()
jump_handshake ==
    /\ epc = "jump_handshake"
    /\ \E ok \in BOOLEAN :
        IF ok
        THEN /\ epc' = "jump_auth"
             /\ UNCHANGED <<jump_host, attempt, last_err, sess, jump_sess,
                            listener, fwd, shutdown_signal, joined, ret, tsteps>>
        ELSE AttemptFailed("jump_handshake")
    /\ UNCHANGED trustVars
    /\ UNCHANGED authVars
    /\ UNCHANGED modes
    /\ UNCHANGED completed
    /\ UNCHANGED delays
    /\ UNCHANGED accepts
    /\ UNCHANGED notConn

\* connection.rs:342-353  jump_sess.userauth_password, keepalive, non-blocking
jump_auth ==
    /\ epc = "jump_auth"
    /\ \E ok \in BOOLEAN :
        IF ok
        THEN /\ epc' = "bind"
             /\ modes' = [modes EXCEPT !.jump = EnableThenSwitch(Authenticated(@))]
             /\ UNCHANGED <<jump_host, attempt, last_err, sess, jump_sess,
                            listener, fwd, shutdown_signal, joined, ret, tsteps>>
        ELSE AttemptFailed("jump_auth")
    /\ UNCHANGED trustVars
    /\ UNCHANGED authVars
    /\ UNCHANGED completed
    /\ UNCHANGED delays
    /\ UNCHANGED accepts
    /\ UNCHANGED notConn

\* connection.rs:356-380  bind the local listener, create the shutdown flag
\* and spawn the forwarding thread
bind_and_spawn ==
    /\ epc = "bind"
    /\ \E ok \in BOOLEAN :
        IF ok
        THEN /\ listener' = "bound"
             /\ shutdown_signal' = FALSE
             /\ joined' = FALSE
             /\ accepts' = 0
             /\ fwd' = "accept"
             /\ epc' = "local_connect"
             /\ UNCHANGED <<jump_host, attempt, last_err, sess, jump_sess, ret,
                            tsteps>>
        ELSE AttemptFailed("bind") /\ UNCHANGED accepts
    /\ UNCHANGED trustVars
    /\ UNCHANGED authVars
    /\ UNCHANGED modes
    /\ UNCHANGED completed
    /\ UNCHANGED delays
    /\ UNCHANGED notConn

\* connection.rs:482-496  connect to the local forwarded port and store the
\* handles
local_connect ==
    /\ epc = "local_connect"
    /\ \E ok \in BOOLEAN :
        IF ok
        THEN /\ sess' = "open"
             /\ epc' = "handshake"
             /\ completed' = completed \cup {"connect"}
             /\ modes' = [modes EXCEPT !.sess = NewSession]
             /\ UNCHANGED <<jump_host, attempt, last_err, jump_sess, listener,
                            fwd, shutdown_signal, joined, ret, tsteps>>
        ELSE AttemptFailed("local_connect")
    /\ UNCHANGED trustVars
    /\ UNCHANGED authVars
    /\ UNCHANGED delays
    /\ UNCHANGED accepts
    /\ UNCHANGED notConn

\* connection.rs:498-509  direct connection
direct_connect ==
    /\ epc = "connect"
    /\ \E ok \in BOOLEAN :
        IF ok
        THEN /\ sess' = "open"
             /\ epc' = "handshake"
             /\ completed' = completed \cup {"connect"}
             /\ modes' = [modes EXCEPT !.sess = NewSession]
             /\ UNCHANGED <<jump_host, attempt, last_err, jump_sess, listener,
                            fwd, shutdown_signal, joined, ret, tsteps>>
        ELSE AttemptFailed("connect")
    /\ UNCHANGED trustVars
    /\ UNCHANGED authVars
    /\ UNCHANGED delays
    /\ UNCHANGED accepts
    /\ UNCHANGED notConn

\* connection.rs:512-513  sess.handshake(); through a jump host it can only
\* succeed while the forwarding thread relays
handshake ==
    /\ epc = "handshake"
    /\ \E ok \in BOOLEAN :
        IF ok
        THEN /\ UsesJump(jump_host) => fwd \in RelayPhases
             /\ epc' = "verify"
             /\ completed' = completed \cup {"handshake"}
             /\ UNCHANGED <<jump_host, attempt, last_err, sess, jump_sess,
                            listener, fwd, shutdown_signal, joined, ret, tsteps>>
        ELSE AttemptFailed("handshake")
    /\ UNCHANGED trustVars
    /\ UNCHANGED authVars
    /\ UNCHANGED modes
    /\ UNCHANGED delays
    /\ UNCHANGED accepts
    /\ UNCHANGED notConn

\* connection.rs:516, 604-680  verify_host_key against the key the server
\* presents: Match proceeds, NotFound adds the entry, writes the file and
\* proceeds, Mismatch and Failure are errors
verify_host_key ==
    /\ epc = "verify"
    /\ \E k \in HostKeys : \E internal \in BOOLEAN :
        LET check == IF internal THEN "Failure"
                     ELSE CheckPort(known_hosts, target_host, k)
        IN /\ vhk' = [check |-> check, key |-> k, before |-> known_hosts,
                      ok |-> check \in {"Match", "NotFound"}]
           /\ known_hosts' = IF check = "NotFound"
                             THEN known_hosts \cup {<<target_host, k>>}
                             ELSE known_hosts
           /\ IF check \in {"Match", "NotFound"}
              THEN /\ epc' = "auth"
                   /\ completed' = completed \cup {"host_key"}
                   /\ UNCHANGED <<jump_host, attempt, last_err, sess, jump_sess,
                                  listener, fwd, shutdown_signal, joined, ret,
                                  tsteps>>
              ELSE AttemptFailed("host_key")
    /\ UNCHANGED target_host
    /\ UNCHANGED authVars
    /\ modes' = IF vhk'.ok THEN [modes EXCEPT !.sess = HostKeyChecked(@)] ELSE modes
    /\ UNCHANGED delays
    /\ UNCHANGED accepts
    /\ UNCHANGED notConn

\* connection.rs:518-588  key or password authentication; key
\* authentication goes through two transient files in the temp directory
authenticate ==
    /\ epc = "auth"
    /\ \E outcome \in AuthOutcomes(auth_type) : \E partial \in BOOLEAN :
        /\ key_auth' = KeyAuth(outcome, partial)
        /\ IF outcome = "auth_ok"
           THEN /\ epc' = "finish"
                /\ completed' = completed \cup {"auth"}
                /\ modes' = [modes EXCEPT !.sess = Authenticated(@)]
                /\ UNCHANGED <<jump_host, attempt, last_err, sess, jump_sess,
                               listener, fwd, shutdown_signal, joined, ret,
                               tsteps>>
           ELSE AttemptFailed("auth")
    /\ UNCHANGED auth_type
    /\ UNCHANGED trustVars
    /\ UNCHANGED delays
    /\ UNCHANGED accepts
    /\ UNCHANGED notConn

\* connection.rs:590-601  keepalive, non-blocking mode, Ok(ManagedSession)
finish_attempt ==
    /\ epc = "finish"
    /\ sess' = "ready"
    /\ epc' = "done_ok"
    /\ UNCHANGED <<jump_host, attempt, last_err, jump_sess, listener, fwd,
                   shutdown_signal, joined, ret, tsteps>>
    /\ UNCHANGED trustVars
    /\ UNCHANGED authVars
    /\ completed' = completed \cup {"keepalive", "nonblocking"}
    /\ modes' = [modes EXCEPT !.sess = EnableThenSwitch(@)]
    /\ UNCHANGED delays
    /\ UNCHANGED accepts
    /\ UNCHANGED notConn

(***************************************************************************)
(* The forwarding thread (connection.rs:380-479)                           *)
(***************************************************************************)
\* a loop condition that forgets the accepted connection
AcceptLoopContinues_unlatched(shutdown, accepted) == ~shutdown

\* connection.rs:385  while !shutdown_signal_clone.load(..) && !accepted
AcceptLoopContinues(shutdown, accepted) == ~shutdown /\ ~accepted

\* connection.rs:390-392  accept() returns the caller's local connection and
\* sets accepted
fwd_accept ==
    /\ fwd = "accept"
    /\ AcceptLoopContinues(shutdown_signal, accepts > 0)
    /\ accepts < MaxAccepts
    /\ sess # "none"
    /\ fwd' = "channel"
    /\ accepts' = accepts + 1
    /\ UNCHANGED <<jump_host, attempt, epc, last_err, sess, jump_sess, listener,
                   shutdown_signal, joined, ret, tsteps>>
    /\ UNCHANGED trustVars
    /\ UNCHANGED authVars
    /\ UNCHANGED modes
    /\ UNCHANGED completed
    /\ UNCHANGED delays
    /\ UNCHANGED notConn

\* connection.rs:385-388, 474-476  the accept loop ends: shutdown flag seen,
\* more than 10 s elapsed, or accept failed
fwd_accept_exit ==
    /\ fwd = "accept"
    /\ fwd' = "exited"
    /\ UNCHANGED <<jump_host, attempt, epc, last_err, sess, jump_sess, listener,
                   shutdown_signal, joined, ret, tsteps>>
    /\ UNCHANGED trustVars
    /\ UNCHANGED authVars
    /\ UNCHANGED modes
    /\ UNCHANGED completed
    /\ UNCHANGED delays
    /\ UNCHANGED accepts
    /\ UNCHANGED notConn

\* connection.rs:399-415  channel_direct_tcpip: Ok starts the relay, an
\* error ends the thread, Session(-37) ends it when the shutdown flag is set
\* and otherwise sleeps 10 ms and calls again
fwd_open_channel ==
    /\ fwd = "channel"
    /\ \E r \in TransportResults :
        fwd' = CASE r = "Ok" /\ jump_sess = "open" -> "relay"
                 [] r = "WouldBlock" /\ ~shutdown_signal -> "channel"
                 [] OTHER -> "exited"
    /\ UNCHANGED <<jump_host, attempt, epc, last_err, sess, jump_sess, listener,
                   shutdown_signal, joined, ret, tsteps>>
    /\ UNCHANGED trustVars
    /\ UNCHANGED authVars
    /\ UNCHANGED modes
    /\ UNCHANGED completed
    /\ UNCHANGED delays
    /\ UNCHANGED accepts
    /\ UNCHANGED notConn

\* connection.rs:423-469  the relay loop ends: shutdown flag seen, EOF or
\* an I/O error on either side; a break (:428, :443, :448, :463) falls back to
\* the condition of the accept loop (:385), a return ends the thread
fwd_relay_exit ==
    /\ fwd = "relay"
    /\ \E how \in {"break", "return"} :
        fwd' = IF how = "break" /\ AcceptLoopContinues(shutdown_signal, accepts > 0)
               THEN "accept"
               ELSE "exited"
    /\ UNCHANGED <<jump_host, attempt, epc, last_err, sess, jump_sess, listener,
                   shutdown_signal, joined, ret, tsteps>>
    /\ UNCHANGED trustVars
    /\ UNCHANGED authVars
    /\ UNCHANGED modes
    /\ UNCHANGED completed
    /\ UNCHANGED delays
    /\ UNCHANGED accepts
    /\ UNCHANGED notConn

\* connection.rs:423-431, 447-451  a relay turn, entered while the shutdown
\* flag is clear, reads n > 0 bytes from one side
fwd_relay_read ==
    /\ fwd = "relay"
    /\ ~shutdown_signal
    /\ fwd' = "write"
    /\ UNCHANGED <<jump_host, attempt, epc, last_err, sess, jump_sess, listener,
                   shutdown_signal, joined, ret, tsteps>>
    /\ UNCHANGED trustVars
    /\ UNCHANGED authVars
    /\ UNCHANGED modes
    /\ UNCHANGED completed
    /\ UNCHANGED delays
    /\ UNCHANGED accepts
    /\ UNCHANGED notConn

\* connection.rs:432-440, 452-460  while pos < n: write the rest to the other
\* side; Ok completes it, WouldBlock sleeps, any other error ends the thread
fwd_write ==
    /\ fwd = "write"
    /\ \E r \in TransportResults :
        fwd' = CASE r = "Ok" -> "relay"
                 [] r = "WouldBlock" -> "write_sleep"
                 [] OTHER -> "exited"
    /\ UNCHANGED <<jump_host, attempt, epc, last_err, sess, jump_sess, listener,
                   shutdown_signal, joined, ret, tsteps>>
    /\ UNCHANGED trustVars
    /\ UNCHANGED authVars
    /\ UNCHANGED modes
    /\ UNCHANGED completed
    /\ UNCHANGED delays
    /\ UNCHANGED accepts
    /\ UNCHANGED notConn

\* connection.rs:436, 456  thread::sleep(1 ms), then the write loop again
fwd_write_sleep ==
    /\ fwd = "write_sleep"
    /\ fwd' = "write"
    /\ UNCHANGED <<jump_host, attempt, epc, last_err, sess, jump_sess, listener,
                   shutdown_signal, joined, ret, tsteps>>
    /\ UNCHANGED trustVars
    /\ UNCHANGED authVars
    /\ UNCHANGED modes
    /\ UNCHANGED completed
    /\ UNCHANGED delays
    /\ UNCHANGED accepts
    /\ UNCHANGED notConn

\* the steps of the forwarding thread
FwdThread ==
    \/ fwd_accept
    \/ fwd_accept_exit
    \/ fwd_open_channel
    \/ fwd_relay_exit
    \/ fwd_relay_read
    \/ fwd_write
    \/ fwd_write_sleep

(***************************************************************************)
(* Teardown of the ManagedSession that establishment returned.             *)
(***************************************************************************)
\* connection.rs:28-50  impl Drop for ManagedSession
DropSteps == <<"signal", "join", "jump_disconnect", "disconnect", "unblock">>

\* connection.rs:214-232 / 237-255  close_all on the locked session (the
\* handle is taken), followed by Drop when the last Arc goes away
CloseAllSteps ==
    <<"signal", "join", "jump_disconnect", "disconnect", "unblock">>
        \o <<"jump_disconnect", "disconnect", "unblock">>

\* manager.rs:263-268  SshManager::run after its loop: disconnect the
\* session; Drop runs when the manager is dropped
ActorShutdownSteps == <<"disconnect">> \o DropSteps

\* the owner tears the session down: by dropping it, through close_all, or
\* through the actor's shutdown
teardown_begin ==
    /\ epc = "done_ok"
    /\ \E steps \in {DropSteps, CloseAllSteps, ActorShutdownSteps} :
        tsteps' = steps
    /\ epc' = "teardown"
    /\ UNCHANGED <<jump_host, attempt, last_err, sess, jump_sess, listener, fwd,
                   shutdown_signal, joined, ret>>
    /\ UNCHANGED trustVars
    /\ UNCHANGED authVars
    /\ UNCHANGED modes
    /\ UNCHANGED completed
    /\ UNCHANGED delays
    /\ UNCHANGED accepts
    /\ UNCHANGED notConn

\* handle.shutdown_signal.store(true, ..) when a forwarding handle is present
teardown_signal ==
    /\ epc = "teardown"
    /\ tsteps # <<>>
    /\ Head(tsteps) = "signal"
    /\ shutdown_signal' = (IF fwd # "none" THEN TRUE ELSE shutdown_signal)
    /\ tsteps' = Tail(tsteps)
    /\ UNCHANGED <<jump_host, attempt, epc, last_err, sess, jump_sess, listener,
                   fwd, joined, ret>>
    /\ UNCHANGED trustVars
    /\ UNCHANGED authVars
    /\ UNCHANGED modes
    /\ UNCHANGED completed
    /\ UNCHANGED delays
    /\ UNCHANGED accepts
    /\ UNCHANGED notConn

\* thread_handle.join(): returns once the forwarding thread has ended
teardown_join ==
    /\ epc = "teardown"
    /\ tsteps # <<>>
    /\ Head(tsteps) = "join"
    /\ fwd \in {"none", "exited"}
    /\ joined' = (IF fwd # "none" THEN TRUE ELSE joined)
    /\ tsteps' = Tail(tsteps)
    /\ UNCHANGED <<jump_host, attempt, epc, last_err, sess, jump_sess, listener,
                   fwd, shutdown_signal, ret>>
    /\ UNCHANGED trustVars
    /\ UNCHANGED authVars
    /\ UNCHANGED modes
    /\ UNCHANGED completed
    /\ UNCHANGED delays
    /\ UNCHANGED accepts
    /\ UNCHANGED notConn

\* jump_sess.disconnect(..) when a bastion session is present
teardown_jump_disconnect ==
    /\ epc = "teardown"
    /\ tsteps # <<>>
    /\ Head(tsteps) = "jump_disconnect"
    /\ jump_sess' = (IF jump_sess # "none" THEN "disconnected" ELSE jump_sess)
    /\ tsteps' = Tail(tsteps)
    /\ UNCHANGED <<jump_host, attempt, epc, last_err, sess, listener, fwd,
                   shutdown_signal, joined, ret>>
    /\ UNCHANGED trustVars
    /\ UNCHANGED authVars
    /\ UNCHANGED modes
    /\ UNCHANGED completed
    /\ UNCHANGED delays
    /\ UNCHANGED accepts
    /\ UNCHANGED notConn

\* session.disconnect(..)
teardown_disconnect ==
    /\ epc = "teardown"
    /\ tsteps # <<>>
    /\ Head(tsteps) = "disconnect"
    /\ sess' = "disconnected"
    /\ tsteps' = Tail(tsteps)
    /\ UNCHANGED <<jump_host, attempt, epc, last_err, jump_sess, listener, fwd,
                   shutdown_signal, joined, ret>>
    /\ UNCHANGED trustVars
    /\ UNCHANGED authVars
    /\ UNCHANGED modes
    /\ UNCHANGED completed
    /\ UNCHANGED delays
    /\ UNCHANGED accepts
    /\ UNCHANGED notConn

\* TcpStream::connect(listener.local_addr()) when a listener is present
teardown_unblock ==
    /\ epc = "teardown"
    /\ tsteps # <<>>
    /\ Head(tsteps) = "unblock"
    /\ listener' = (IF listener # "none" THEN "unblocked" ELSE listener)
    /\ tsteps' = Tail(tsteps)
    /\ UNCHANGED <<jump_host, attempt, epc, last_err, sess, jump_sess, fwd,
                   shutdown_signal, joined, ret>>
    /\ UNCHANGED trustVars
    /\ UNCHANGED authVars
    /\ UNCHANGED modes
    /\ UNCHANGED completed
    /\ UNCHANGED delays
    /\ UNCHANGED accepts
    /\ UNCHANGED notConn

ConnNext ==
    \/ establish_connection_with_retry
    \/ retry_backoff
    \/ jump_connect
    \/ jump_handshake
    \/ jump_auth
    \/ bind_and_spawn
    \/ local_connect
    \/ direct_connect
    \/ handshake
    \/ verify_host_key
    \/ authenticate
    \/ finish_attempt
    \/ fwd_accept
    \/ fwd_accept_exit
    \/ fwd_open_channel
    \/ fwd_relay_exit
    \/ fwd_relay_read
    \/ fwd_write
    \/ fwd_write_sleep
    \/ teardown_begin
    \/ teardown_signal
    \/ teardown_join
    \/ teardown_jump_disconnect
    \/ teardown_disconnect
    \/ teardown_unblock

(***************************************************************************)
(* SshManager (manager.rs): the actor thread that owns one session, its    *)
(* command queue and its shell channel.                                    *)
(***************************************************************************)
\* manager.rs:150  for _ in 0..10
BatchLimit == 10

ShellCmds == {"ShellOpen", "ShellWrite", "ShellResize", "ShellClose"}

\* commands whose handler runs a read loop: manager.rs:322-330, 384-428
LongCmds == {"Exec", "SftpDownload", "SftpUpload"}

\* manager.rs:20-100  enum SshCommand (the short SFTP commands behave like a
\* long one that moves nothing)
Commands == {"Shutdown"} \cup ShellCmds \cup LongCmds

NoReply == [res |-> "none", n |-> 0]

\* a send that puts two messages on the channel
listener_send_twice(rp, res) == [res |-> res, n |-> rp.n + 2]

\* a send that is left out
listener_send_dropped(rp, res) == [res |-> res, n |-> rp.n]

\* manager.rs:329  let _ = listener.send(res): one message on the command's
\* own response channel
listener_send(rp, res) == [res |-> res, n |-> rp.n + 1]

\* manager.rs:120-134  SshManager::new
ActorIdle ==
    /\ queue = <<>>
    /\ apc = "check"
    /\ batch = 0
    /\ mgr_shutdown = FALSE
    /\ shell_channel = "none"
    /\ shell_sender = "none"
    /\ sink = "none"
    /\ shell_event = "none"
    /\ running = "none"
    /\ xfer_left = 0
    /\ reply = NoReply

\* what channel.read can return on the shell channel
Reads(ch) ==
    IF ch = "open" THEN {"data", "eof", "wouldblock", "error"}
    ELSE {"eof", "error"}

\* `if let Some(tx) = &self.shell_sender { tx.send(msg) }`
Notify(msg) == IF shell_sender = "set" THEN msg ELSE sink

\* a client sends a command on the actor's channel; `during` records that a
\* long command was inside its handler at that moment
client_send(c) ==
    /\ apc # "stopped"
    /\ Len(queue) < MaxQueue
    /\ queue' = Append(queue, [cmd |-> c, during |-> apc = "xfer"])
    /\ UNCHANGED <<apc, batch, mgr_shutdown, shell_channel, shell_sender, sink,
                   shell_event, running, xfer_left>>
    /\ UNCHANGED reply
    /\ UNCHANGED notActor

\* manager.rs:140-146  top of the loop: leave on the shutdown flag
actor_check ==
    /\ apc = "check"
    /\ IF mgr_shutdown
       THEN apc' = "cleanup" /\ batch' = batch
       ELSE apc' = "recv" /\ batch' = 0
    /\ UNCHANGED <<queue, mgr_shutdown, shell_channel, shell_sender, sink,
                   shell_event, running, xfer_left>>
    /\ UNCHANGED reply
    /\ UNCHANGED notActor

\* manager.rs:150-153  try_recv() returned Ok(cmd)
Received(c) ==
    /\ apc = "recv"
    /\ batch < BatchLimit
    /\ queue # <<>>
    /\ Head(queue).cmd = c
    /\ queue' = Tail(queue)
    /\ batch' = batch + 1

\* manager.rs:156, 150  the queue is empty or ten commands were handled
actor_recv_done ==
    /\ apc = "recv"
    /\ batch = BatchLimit \/ queue = <<>>
    /\ apc' = "poll1"
    /\ UNCHANGED <<queue, batch, mgr_shutdown, shell_channel, shell_sender,
                   sink, shell_event, running, xfer_left>>
    /\ UNCHANGED reply
    /\ UNCHANGED notActor

\* manager.rs:272-274
handle_Shutdown ==
    /\ Received("Shutdown")
    /\ mgr_shutdown' = TRUE
    /\ UNCHANGED <<apc, shell_channel, shell_sender, sink, shell_event,
                   running, xfer_left>>
    /\ UNCHANGED reply
    /\ UNCHANGED notActor

\* manager.rs:275-305  an existing channel is closed first; the new channel
\* is stored only when channel_session, request_pty and shell all succeed
handle_ShellOpen ==
    /\ Received("ShellOpen")
    /\ \E r \in {"ok", "channel_err", "pty_err", "shell_err"} :
        IF r = "ok"
        THEN /\ shell_channel' = "open"
             /\ shell_sender' = "set"
             /\ sink' = "none"
             /\ shell_event' = "ShellOpen"
        ELSE /\ shell_channel' = "none"
             /\ shell_event' = "ShellOpenFailed"
             /\ UNCHANGED <<shell_sender, sink>>
    /\ UNCHANGED <<apc, mgr_shutdown, running, xfer_left>>
    /\ UNCHANGED reply
    /\ UNCHANGED notActor

\* manager.rs:306-310  write_all on the channel, result discarded
handle_ShellWrite ==
    /\ Received("ShellWrite")
    /\ shell_event' = IF shell_channel = "open" THEN "ShellWrite" ELSE shell_event
    /\ UNCHANGED <<apc, mgr_shutdown, shell_channel, shell_sender, sink,
                   running, xfer_left>>
    /\ UNCHANGED reply
    /\ UNCHANGED notActor

\* manager.rs:311-315  request_pty_size on the channel, result discarded
handle_ShellResize ==
    /\ Received("ShellResize")
    /\ shell_event' = IF shell_channel = "open" THEN "ShellResize" ELSE shell_event
    /\ UNCHANGED <<apc, mgr_shutdown, shell_channel, shell_sender, sink,
                   running, xfer_left>>
    /\ UNCHANGED reply
    /\ UNCHANGED notActor

\* manager.rs:316-321
handle_ShellClose ==
    /\ Received("ShellClose")
    /\ shell_channel' = "none"
    /\ shell_sender' = "none"
    /\ shell_event' = "ShellClose"
    /\ UNCHANGED <<apc, mgr_shutdown, sink, running, xfer_left>>
    /\ UNCHANGED reply
    /\ UNCHANGED notActor

\* manager.rs:322-330, 384-428 with 450-463, 834-848: handle_command calls
\* the helper on the actor thread; the helper's setup either fails (the
\* result is sent at once) or enters its read loop
handle_long_command ==
    /\ \E c \in LongCmds :
        /\ Received(c)
        /\ \E ok \in BOOLEAN :
            IF ok
            THEN /\ running' = c
                 /\ \E n \in 1..MaxChunks : xfer_left' = n
                 /\ apc' = "xfer"
                 /\ reply' = [res |-> "pending", n |-> 0]
            ELSE /\ reply' = listener_send(NoReply, "error")
                 /\ UNCHANGED <<running, xfer_left, apc>>
    /\ UNCHANGED <<mgr_shutdown, shell_channel, shell_sender, sink, shell_event>>
    /\ UNCHANGED notActor

\* manager.rs:492-507  pump_shell: forward shell output if there is any
pump_shell ==
    IF shell_channel = "open"
    THEN \E r \in {"data", "wouldblock"} :
            IF r = "data"
            THEN sink' = Notify("Data") /\ shell_event' = "data"
            ELSE UNCHANGED <<sink, shell_event>>
    ELSE UNCHANGED <<sink, shell_event>>

\* manager.rs:470-486, 859-884, 940-970  one turn of the helper's read loop:
\* a chunk or would-block, then pump_shell
xfer_step ==
    /\ apc = "xfer"
    /\ \E r \in {"data", "wouldblock"} :
        IF r = "data"
        THEN xfer_left > 0 /\ xfer_left' = xfer_left - 1
        ELSE xfer_left' = xfer_left
    /\ pump_shell
    /\ UNCHANGED <<queue, apc, batch, mgr_shutdown, shell_channel,
                   shell_sender, running>>
    /\ UNCHANGED reply
    /\ UNCHANGED notActor

\* manager.rs:472, 482, 855-857, 883  the loop ends (EOF, cancellation or an
\* error) and handle_command sends the result: manager.rs:329, 410, 427
xfer_done ==
    /\ apc = "xfer"
    /\ \E r \in {"eof", "stopped"} :
        /\ r = "eof" => xfer_left = 0
        /\ reply' = listener_send(NoReply, IF r = "eof" THEN "ok" ELSE "error")
    /\ running' = "none"
    /\ xfer_left' = 0
    /\ apc' = "recv"
    /\ UNCHANGED <<queue, batch, mgr_shutdown, shell_channel, shell_sender,
                   sink, shell_event>>
    /\ UNCHANGED notActor

\* manager.rs:161-206  first poll: the channel is taken out of the Option
\* and stored back only in the WouldBlock arm
poll_shell_take ==
    /\ apc = "poll1"
    /\ IF shell_channel = "none"
       THEN UNCHANGED <<shell_channel, sink, shell_event>>
       ELSE \E r \in Reads(shell_channel) :
            CASE r = "data" ->
                    /\ sink' = Notify("Data")
                    /\ shell_channel' = "none"
                    /\ shell_event' = "data"
              [] r = "wouldblock" ->
                    UNCHANGED <<shell_channel, sink, shell_event>>
              [] OTHER ->
                    /\ sink' = Notify("Exit")
                    /\ shell_channel' = "none"
                    /\ shell_event' = r
    /\ apc' = "poll2"
    /\ UNCHANGED <<queue, batch, mgr_shutdown, shell_sender, running, xfer_left>>
    /\ UNCHANGED reply
    /\ UNCHANGED notActor

\* manager.rs:213-260  second poll on the borrowed channel, then keepalive
\* and the idle sleep
poll_shell_borrow ==
    /\ apc = "poll2"
    /\ IF shell_channel = "none"
       THEN UNCHANGED <<shell_channel, sink, shell_event>>
       ELSE \E r \in Reads(shell_channel) :
            CASE r = "data" ->
                    /\ sink' = Notify("Data")
                    /\ shell_event' = "data"
                    /\ UNCHANGED shell_channel
              [] r = "wouldblock" ->
                    UNCHANGED <<shell_channel, sink, shell_event>>
              [] OTHER ->
                    /\ sink' = Notify("Exit")
                    /\ shell_channel' = "closed"
                    /\ shell_event' = r
    /\ apc' = "check"
    /\ UNCHANGED <<queue, batch, mgr_shutdown, shell_sender, running, xfer_left>>
    /\ UNCHANGED reply
    /\ UNCHANGED notActor

\* manager.rs:263-267  after the loop: close the shell channel, disconnect
actor_cleanup ==
    /\ apc = "cleanup"
    /\ shell_channel' = "none"
    /\ apc' = "stopped"
    /\ UNCHANGED <<queue, batch, mgr_shutdown, shell_sender, sink, shell_event,
                   running, xfer_left>>
    /\ UNCHANGED reply
    /\ UNCHANGED notActor

ActorNext ==
    \/ \E c \in Commands : client_send(c)
    \/ actor_check
    \/ actor_recv_done
    \/ handle_Shutdown
    \/ handle_ShellOpen
    \/ handle_ShellWrite
    \/ handle_ShellResize
    \/ handle_ShellClose
    \/ handle_long_command
    \/ xfer_step
    \/ xfer_done
    \/ poll_shell_take
    \/ poll_shell_borrow
    \/ actor_cleanup

(***************************************************************************)
(* Operations that worker threads run on a background session: each is a   *)
(* fixed sequence of transport calls on a non-blocking session.            *)
(***************************************************************************)
Ops == {"exec_command", "download_file", "upload_file"}

\* how each transport call of an operation is made: through ssh2_retry, in
\* a read loop that sleeps on WouldBlock, or directly
\* command.rs:48-80
exec_command_calls ==
    << [call |-> "channel_session", how |-> "retry"],
       [call |-> "exec", how |-> "retry"],
       [call |-> "read", how |-> "loop"],
       [call |-> "wait_close", how |-> "retry"] >>

\* file_ops.rs:717-775
download_file_calls ==
    << [call |-> "sftp", how |-> "retry"],
       [call |-> "open", how |-> "retry"],
       [call |-> "stat", how |-> "direct"],
       [call |-> "read", how |-> "loop"] >>

\* file_ops.rs:982-1045  (the loop reads the local file and writes remotely)
upload_file_calls ==
    << [call |-> "sftp", how |-> "retry"],
       [call |-> "create", how |-> "retry"],
       [call |-> "write", how |-> "loop"] >>

Calls(o) ==
    CASE o = "exec_command" -> exec_command_calls
      [] o = "download_file" -> download_file_calls
      [] OTHER -> upload_file_calls

\* position of the data loop among an operation's calls
LoopIndex(o) == CHOOSE i \in 1..Len(Calls(o)) : Calls(o)[i].how = "loop"

\* a cancellation check that never sees the flag
CancelSeen_never(flag) == FALSE

\* command.rs:58-63, file_ops.rs:738, 1003  flag.load(Ordering::Relaxed) at
\* the top of every loop turn
CancelSeen(flag) == flag

\* a retry that hands back whatever the call returned
ssh2_retry_once(r) == r

\* utils.rs:11-27  ssh2_retry: Session(-37) sleeps and calls again, anything
\* else is returned
ssh2_retry(r) == IF r = "WouldBlock" THEN "again" ELSE r

\* outcome of one transport call made in the given way
CallOutcome(how, r) ==
    IF how = "direct" THEN r ELSE ssh2_retry(r)

OpsIdle ==
    /\ op_pc = [o \in Ops |-> 0]
    /\ op_result = [o \in Ops |-> "none"]
    /\ op_moved = [o \in Ops |-> 0]
    /\ op_cancel = [o \in Ops |-> FALSE]
    /\ op_early = [o \in Ops |-> FALSE]

\* command.rs:44-48, file_ops.rs:713-716  the operation has its session
op_begin(o) ==
    /\ op_pc[o] = 0
    /\ op_result[o] = "none"
    /\ op_pc' = [op_pc EXCEPT ![o] = 1]
    /\ UNCHANGED <<op_result, op_moved, op_cancel, op_early>>
    /\ UNCHANGED notOps

\* the user cancels: the flag is shared with the operation
op_set_cancel(o) ==
    /\ op_result[o] = "none"
    /\ ~op_cancel[o]
    /\ op_cancel' = [op_cancel EXCEPT ![o] = TRUE]
    /\ op_early' = [op_early EXCEPT ![o] =
                        op_moved[o] = 0 /\ op_pc[o] <= LoopIndex(o)]
    /\ UNCHANGED <<op_pc, op_result, op_moved>>
    /\ UNCHANGED notOps

\* the operation returns v to its caller
Returns(o, v) ==
    /\ op_result' = [op_result EXCEPT ![o] = v]
    /\ op_pc' = [op_pc EXCEPT ![o] = 0]

\* a call outside the read loop: command.rs:49-52, 78-79; file_ops.rs:717-723
op_call(o) ==
    /\ op_pc[o] \in 1..Len(Calls(o))
    /\ Calls(o)[op_pc[o]].how # "loop"
    /\ \E r \in TransportResults :
        LET out == CallOutcome(Calls(o)[op_pc[o]].how, r) IN
        CASE out = "again" -> UNCHANGED <<op_pc, op_result>>
          [] out = "Ok" ->
                IF op_pc[o] = Len(Calls(o))
                THEN Returns(o, "Ok")
                ELSE op_pc' = [op_pc EXCEPT ![o] = @ + 1] /\ UNCHANGED op_result
          [] OTHER -> Returns(o, out)
    /\ UNCHANGED <<op_moved, op_cancel, op_early>>
    /\ UNCHANGED notOps

\* one turn of the read loop: command.rs:57-76, file_ops.rs:737-774
op_read(o) ==
    /\ op_pc[o] \in 1..Len(Calls(o))
    /\ Calls(o)[op_pc[o]].how = "loop"
    /\ IF CancelSeen(op_cancel[o])
       THEN Returns(o, "Cancelled") /\ UNCHANGED op_moved
       ELSE \E r \in {"data", "eof", "WouldBlock", "Error"} :
            CASE r = "data" ->
                    /\ op_moved[o] < MaxChunks
                    /\ op_moved' = [op_moved EXCEPT ![o] = @ + 1]
                    /\ UNCHANGED <<op_pc, op_result>>
              [] r = "eof" ->
                    /\ IF op_pc[o] = Len(Calls(o))
                       THEN Returns(o, "Ok")
                       ELSE op_pc' = [op_pc EXCEPT ![o] = @ + 1]
                            /\ UNCHANGED op_result
                    /\ UNCHANGED op_moved
              [] r = "WouldBlock" ->
                    UNCHANGED <<op_pc, op_result, op_moved>>
              [] OTHER ->
                    Returns(o, "Error") /\ UNCHANGED op_moved
    /\ UNCHANGED <<op_cancel, op_early>>
    /\ UNCHANGED notOps

OpsNext ==
    \/ \E o \in Ops : op_begin(o)
    \/ \E o \in Ops : op_set_cancel(o)
    \/ \E o \in Ops : op_call(o)
    \/ \E o \in Ops : op_read(o)

(***************************************************************************)
(* Transfer records: the worker of download_file / upload_file             *)
(* (file_ops.rs:701-803, 966-1071) and cancel_transfer (client.rs:265-284) *)
(***************************************************************************)
\* file_ops.rs:707-711, 972-976  data.status = "running"
transfer_start(x) ==
    /\ ts_pc[x] = "spawned"
    /\ ts_status' = [ts_status EXCEPT ![x] = "running"]
    /\ ts_pc' = [ts_pc EXCEPT ![x] = "work"]
    /\ UNCHANGED <<ts_cancel_flag, ts_cpc, disconnect_pc, shellThreadVars, storeVars>>
    /\ UNCHANGED <<poolVars, notClient>>

\* file_ops.rs:713-775, 978-1045  session, sftp, open and one loop turn: the
\* flag seen at the top of the turn stores "cancelled" and returns Err; a
\* failed call returns Err; end of data leaves the loop; data stays in it
transfer_work(x) ==
    /\ ts_pc[x] = "work"
    /\ IF CancelSeen(ts_cancel_flag[x])
       THEN /\ ts_status' = [ts_status EXCEPT ![x] = "cancelled"]
            /\ ts_pc' = [ts_pc EXCEPT ![x] = "failed"]
       ELSE /\ \E r \in {"eof", "Error"} :
                ts_pc' = [ts_pc EXCEPT ![x] = IF r = "eof" THEN "finishing" ELSE "failed"]
            /\ UNCHANGED ts_status
    /\ UNCHANGED <<ts_cancel_flag, ts_cpc, disconnect_pc, shellThreadVars, storeVars>>
    /\ UNCHANGED <<poolVars, notClient>>

\* file_ops.rs:777-782, 1047-1051  data.status = "completed"
transfer_complete(x) ==
    /\ ts_pc[x] = "finishing"
    /\ ts_status' = [ts_status EXCEPT ![x] = "completed"]
    /\ ts_pc' = [ts_pc EXCEPT ![x] = "done"]
    /\ UNCHANGED <<ts_cancel_flag, ts_cpc, disconnect_pc, shellThreadVars, storeVars>>
    /\ UNCHANGED <<poolVars, notClient>>

\* file_ops.rs:796-802, 1064-1070  on Err: "error" unless the status is
\* "cancelled"
transfer_record_error(x) ==
    /\ ts_pc[x] = "failed"
    /\ ts_status' = [ts_status EXCEPT ![x] =
                        IF @ # "cancelled" THEN "error" ELSE @]
    /\ ts_pc' = [ts_pc EXCEPT ![x] = "done"]
    /\ UNCHANGED <<ts_cancel_flag, ts_cpc, disconnect_pc, shellThreadVars, storeVars>>
    /\ UNCHANGED <<poolVars, notClient>>

\* client.rs:275  transfer_state.cancel_flag.store(true, Ordering::Relaxed)
cancel_transfer_store(x) ==
    /\ ts_cpc[x] = "idle"
    /\ ts_cancel_flag' = [ts_cancel_flag EXCEPT ![x] = TRUE]
    /\ ts_cpc' = [ts_cpc EXCEPT ![x] = "update"]
    /\ UNCHANGED <<ts_status, ts_pc, disconnect_pc, shellThreadVars, storeVars>>
    /\ UNCHANGED <<poolVars, notClient>>

\* client.rs:278-281  under the data lock: running or pending becomes
\* "cancelled"
cancel_transfer_update(x) ==
    /\ ts_cpc[x] = "update"
    /\ ts_status' = [ts_status EXCEPT ![x] =
                        IF @ \in {"running", "pending"} THEN "cancelled" ELSE @]
    /\ ts_cpc' = [ts_cpc EXCEPT ![x] = "done"]
    /\ UNCHANGED <<ts_cancel_flag, ts_pc, disconnect_pc, shellThreadVars, storeVars>>
    /\ UNCHANGED <<poolVars, notClient>>

TransferNext ==
    \/ \E x \in Transfers : transfer_start(x)
    \/ \E x \in Transfers : transfer_work(x)
    \/ \E x \in Transfers : transfer_complete(x)
    \/ \E x \in Transfers : transfer_record_error(x)
    \/ \E x \in Transfers : cancel_transfer_store(x)
    \/ \E x \in Transfers : cancel_transfer_update(x)

(***************************************************************************)
(* The pool under its callers.                                             *)
(***************************************************************************)
(***************************************************************************)
(* Transfer resume (ssh.rs:1305-1397, 1468-1537, 1737-1776;                *)
(* file_ops.rs:1162-1183)                                                  *)
(***************************************************************************)
Bytes == {"a", "b"}

Contents == UNION {[1..n -> Bytes] : n \in 0..MaxLen}

Prefix(s, n) == SubSeq(s, 1, n)

\* what the remote host offers: sha256sum, only md5sum, neither, or the
\* command fails (ssh.rs:1306-1371)
DigestTools == {"sha256", "md5", "none", "err"}

\* a digest stands for the bytes it was computed over, tagged with its kind
\* (64 or 32 hex digits); distinct contents have distinct digests
Digest(kind, bytes) == [kind |-> kind, over |-> bytes]

\* ssh.rs:1305-1372  Ok(Some(sha256)), Ok(Some(md5)), Ok(None) or Err
get_remote_file_hash(tool, file) ==
    IF tool \in {"sha256", "md5"} THEN Digest(tool, file) ELSE Digest(tool, <<>>)

\* ssh.rs:1374-1397  SHA-256 of the first `limit` bytes
compute_local_file_hash(file, limit) == Digest("sha256", Prefix(file, limit))

\* ssh.rs:1499-1521  MD5 of the first `size` bytes
local_md5(file, size) == Digest("md5", Prefix(file, size))

NoOut == [impl |-> "none", offset |-> 0, skipped |-> FALSE]

ResumeIdle ==
    /\ rs_in = [resume |-> FALSE, src |-> <<>>, exists |-> FALSE, dst |-> <<>>,
                tool |-> "none"]
    /\ rs_out = NoOut

\* ssh.rs:1468-1537  offset chosen by upload_recursive_progress for one file
UploadOffset(resume, local, exists, remote, tool) ==
    IF ~resume \/ ~exists THEN 0
    ELSE LET size == Len(remote)
             remote_hash == get_remote_file_hash(tool, remote)
         IN IF remote_hash.kind = "sha256"
            THEN IF compute_local_file_hash(local, size) = remote_hash
                 THEN size ELSE 0
            ELSE IF remote_hash.kind = "md5"
            THEN IF local_md5(local, size) = remote_hash THEN size ELSE 0
            ELSE 0

\* ssh.rs:1463-1575  upload of one file: a remote file at least as long as
\* the local one counts as already uploaded
upload_recursive_progress ==
    /\ rs_out = NoOut
    /\ rs_out' =
        IF rs_in.resume /\ rs_in.exists /\ Len(rs_in.dst) >= Len(rs_in.src)
        THEN [impl |-> "ssh_upload", offset |-> 0, skipped |-> TRUE]
        ELSE [impl |-> "ssh_upload", skipped |-> FALSE,
              offset |-> UploadOffset(rs_in.resume, rs_in.src, rs_in.exists,
                                      rs_in.dst, rs_in.tool)]
    /\ UNCHANGED rs_in
    /\ UNCHANGED rmVars
    /\ UNCHANGED retryVars
    /\ UNCHANGED swVars
    /\ UNCHANGED notFiles

\* ssh.rs:1737-1776  download_file_with_progress: a shorter local file is
\* opened for append and the remote file is read from its length
ssh_download_file_with_progress ==
    /\ rs_out = NoOut
    /\ rs_out' =
        IF rs_in.resume /\ rs_in.exists
        THEN IF Len(rs_in.dst) < Len(rs_in.src)
             THEN [impl |-> "ssh_download", offset |-> Len(rs_in.dst),
                   skipped |-> FALSE]
             ELSE [impl |-> "ssh_download", offset |-> 0, skipped |-> TRUE]
        ELSE [impl |-> "ssh_download", offset |-> 0, skipped |-> FALSE]
    /\ UNCHANGED rs_in
    /\ UNCHANGED rmVars
    /\ UNCHANGED retryVars
    /\ UNCHANGED swVars
    /\ UNCHANGED notFiles

\* file_ops.rs:1162-1171  _resume is not read; download_file creates the
\* local file anew
download_file_with_progress ==
    /\ rs_out = NoOut
    /\ rs_out' = [impl |-> "download", offset |-> 0, skipped |-> FALSE]
    /\ UNCHANGED rs_in
    /\ UNCHANGED rmVars
    /\ UNCHANGED retryVars
    /\ UNCHANGED swVars
    /\ UNCHANGED notFiles

\* file_ops.rs:1174-1183  _resume is not read; upload_file creates the
\* remote file anew
upload_file_with_progress ==
    /\ rs_out = NoOut
    /\ rs_out' = [impl |-> "upload", offset |-> 0, skipped |-> FALSE]
    /\ UNCHANGED rs_in
    /\ UNCHANGED rmVars
    /\ UNCHANGED retryVars
    /\ UNCHANGED swVars
    /\ UNCHANGED notFiles

ResumeNext ==
    \/ upload_recursive_progress
    \/ ssh_download_file_with_progress
    \/ download_file_with_progress
    \/ upload_file_with_progress

(***************************************************************************)
(* Shell writes on the non-blocking shell channel                          *)
(* (manager.rs:306-310, terminal.rs:127-131)                               *)
(***************************************************************************)
\* a shell write carries at least one byte
Payloads == Contents \ {<<>>}

SwIdle ==
    /\ sw_pc = "recv"
    /\ sw_buf = <<>>
    /\ sw_submitted = <<>>
    /\ sw_wire = <<>>
    /\ sw_count = 0

\* manager.rs:306-308, terminal.rs:129-130  a ShellWrite(data) arrives while
\* the shell channel is Some and channel.write_all(&data) starts
shell_write_begin ==
    /\ sw_pc = "recv"
    /\ sw_count < MaxWrites
    /\ \E d \in Payloads :
        /\ sw_buf' = d
        /\ sw_submitted' = sw_submitted \o d
    /\ sw_pc' = "write"
    /\ sw_count' = sw_count + 1
    /\ UNCHANGED sw_wire
    /\ UNCHANGED <<resumeVars, rmVars, retryVars>>
    /\ UNCHANGED notFiles

\* manager.rs:308, terminal.rs:130  one turn of write_all's loop on the
\* non-blocking channel: write accepts n >= 1 bytes and the loop goes on with
\* the rest, or write fails (would-block included), write_all returns that
\* error and `let _ =` discards it together with the rest of the payload
write_all_step ==
    /\ sw_pc = "write"
    /\ \E r \in TransportResults :
        IF r = "Ok"
        THEN \E n \in 1..Len(sw_buf) :
                /\ sw_wire' = sw_wire \o SubSeq(sw_buf, 1, n)
                /\ sw_buf' = SubSeq(sw_buf, n + 1, Len(sw_buf))
                /\ sw_pc' = IF n = Len(sw_buf) THEN "recv" ELSE "write"
        ELSE /\ sw_buf' = <<>>
             /\ sw_pc' = "recv"
             /\ UNCHANGED sw_wire
    /\ UNCHANGED <<sw_submitted, sw_count>>
    /\ UNCHANGED <<resumeVars, rmVars, retryVars>>
    /\ UNCHANGED notFiles

ShellWriteNext == shell_write_begin \/ write_all_step

(***************************************************************************)
(* ssh2_retry (utils.rs:11-27) around a closure f                          *)
(***************************************************************************)
Scripts == UNION {[1..n -> TransportResults] : n \in 0..MaxScript}

RetryIdle ==
    /\ rt_script = <<>>
    /\ rt_calls = 0
    /\ rt_pc = "call"
    /\ rt_ret = "none"

\* the k-th call of f
Yields(script, k) == IF k <= Len(script) THEN script[k] ELSE "WouldBlock"

\* utils.rs:16-24  match f(): Ok and every error but Session(-37) return,
\* Session(-37) goes to the sleep
retry_call ==
    /\ rt_pc = "call"
    /\ rt_calls < MaxScript + 2
    /\ rt_calls' = rt_calls + 1
    /\ LET r == ssh2_retry(Yields(rt_script, rt_calls + 1))
       IN IF r = "again"
          THEN rt_pc' = "sleep" /\ rt_ret' = rt_ret
          ELSE rt_pc' = "done" /\ rt_ret' = r
    /\ UNCHANGED rt_script
    /\ UNCHANGED <<resumeVars, rmVars, swVars>>
    /\ UNCHANGED notFiles

\* utils.rs:20-21  thread::sleep(10 ms); continue
retry_sleep ==
    /\ rt_pc = "sleep"
    /\ rt_pc' = "call"
    /\ UNCHANGED <<rt_script, rt_calls, rt_ret>>
    /\ UNCHANGED <<resumeVars, rmVars, swVars>>
    /\ UNCHANGED notFiles

RetryNext == retry_call \/ retry_sleep

(***************************************************************************)
(* Recursive delete (manager.rs:774-796, file_ops.rs:493-511)              *)
(***************************************************************************)
Names == {"x", "y"}

DotNames == {".", ".."}

\* paths below the directory being deleted, the empty path being that
\* directory itself
Paths == UNION {[1..d -> Names] : d \in 0..MaxDepth}

Child(p, n) == Append(p, n)

IsBelow(q, p) == Len(q) > Len(p) /\ SubSeq(q, 1, Len(p)) = p

\* a remote tree: the root is a directory and an entry exists only inside a
\* directory
Trees ==
    {f \in [Paths -> {"file", "dir", "none"}] :
        /\ f[<<>>] = "dir"
        /\ \A p \in Paths : \A n \in Names :
            (Len(p) < MaxDepth /\ f[Child(p, n)] # "none") => f[p] = "dir"}

EmptyTree == [p \in Paths |-> IF p = <<>> THEN "dir" ELSE "none"]

RmIdle ==
    /\ rm_tree = EmptyTree
    /\ rm_fs = EmptyTree
    /\ rm_stack = <<>>
    /\ rm_log = <<>>
    /\ rm_pc = "idle"

FilesIdle == ResumeIdle /\ RmIdle /\ RetryIdle /\ SwIdle

\* sftp.readdir(path): the names in the directory, with the dot entries
readdir(fs, p) ==
    DotNames \cup
    (IF Len(p) < MaxDepth THEN {n \in Names : fs[Child(p, n)] # "none"} ELSE {})

\* an entry test that takes nothing for a directory
is_dir_never(fs, p) == FALSE

\* manager.rs:785  stat.is_dir()
is_dir(fs, p) == fs[p] = "dir"

Top == rm_stack[Len(rm_stack)]

SetTop(frame) == [rm_stack EXCEPT ![Len(rm_stack)] = frame]

\* the delete is requested on the root directory
rm_recursive_call ==
    /\ rm_pc = "idle"
    /\ rm_pc' = "run"
    /\ rm_stack' = <<[path |-> <<>>, pc |-> "enter", files |-> {}]>>
    /\ UNCHANGED <<rm_tree, rm_fs, rm_log>>
    /\ UNCHANGED resumeVars
    /\ UNCHANGED retryVars
    /\ UNCHANGED swVars
    /\ UNCHANGED notFiles

\* manager.rs:776-777  let files = ssh2_retry(|| sftp.readdir(path))?
rm_readdir ==
    /\ rm_pc = "run"
    /\ Top.pc = "enter"
    /\ rm_stack' = SetTop([Top EXCEPT !.pc = "loop",
                                      !.files = readdir(rm_fs, Top.path)])
    /\ UNCHANGED <<rm_tree, rm_fs, rm_log, rm_pc>>
    /\ UNCHANGED resumeVars
    /\ UNCHANGED retryVars
    /\ UNCHANGED swVars
    /\ UNCHANGED notFiles

\* manager.rs:781-783  "." and ".." are passed over
rm_skip_dot ==
    /\ rm_pc = "run"
    /\ Top.pc = "loop"
    /\ \E n \in Top.files \cap DotNames :
        rm_stack' = SetTop([Top EXCEPT !.files = @ \ {n}])
    /\ UNCHANGED <<rm_tree, rm_fs, rm_log, rm_pc>>
    /\ UNCHANGED resumeVars
    /\ UNCHANGED retryVars
    /\ UNCHANGED swVars
    /\ UNCHANGED notFiles

\* manager.rs:785-786  a directory entry: recurse into it
rm_recurse ==
    /\ rm_pc = "run"
    /\ Top.pc = "loop"
    /\ \E n \in Top.files \ DotNames :
        /\ is_dir(rm_fs, Child(Top.path, n))
        /\ rm_stack' = Append(SetTop([Top EXCEPT !.files = @ \ {n}]),
                              [path |-> Child(Top.path, n), pc |-> "enter",
                               files |-> {}])
    /\ UNCHANGED <<rm_tree, rm_fs, rm_log, rm_pc>>
    /\ UNCHANGED resumeVars
    /\ UNCHANGED retryVars
    /\ UNCHANGED swVars
    /\ UNCHANGED notFiles

\* manager.rs:787-790  any other entry: sftp.unlink
rm_unlink ==
    /\ rm_pc = "run"
    /\ Top.pc = "loop"
    /\ \E n \in Top.files \ DotNames :
        /\ ~is_dir(rm_fs, Child(Top.path, n))
        /\ rm_log' = Append(rm_log, [call |-> "unlink",
                                     path |-> Child(Top.path, n)])
        /\ rm_fs' = [rm_fs EXCEPT ![Child(Top.path, n)] = "none"]
        /\ rm_stack' = SetTop([Top EXCEPT !.files = @ \ {n}])
    /\ UNCHANGED <<rm_tree, rm_pc>>
    /\ UNCHANGED resumeVars
    /\ UNCHANGED retryVars
    /\ UNCHANGED swVars
    /\ UNCHANGED notFiles

\* manager.rs:795  sftp.rmdir(path) once the loop is over, then return to
\* the calling frame
rm_rmdir ==
    /\ rm_pc = "run"
    /\ Top.pc = "loop"
    /\ Top.files = {}
    /\ rm_log' = Append(rm_log, [call |-> "rmdir", path |-> Top.path])
    /\ rm_fs' = [rm_fs EXCEPT ![Top.path] = "none"]
    /\ rm_stack' = SubSeq(rm_stack, 1, Len(rm_stack) - 1)
    /\ rm_pc' = IF Len(rm_stack) = 1 THEN "done" ELSE "run"
    /\ UNCHANGED rm_tree
    /\ UNCHANGED resumeVars
    /\ UNCHANGED retryVars
    /\ UNCHANGED swVars
    /\ UNCHANGED notFiles

RmNext ==
    \/ rm_recursive_call
    \/ rm_readdir
    \/ rm_skip_dot
    \/ rm_recurse
    \/ rm_unlink
    \/ rm_rmdir

Init ==
    /\ PoolInit
    /\ jump_host = "none"
    /\ ConnIdle
    /\ TrustIdle /\ AuthIdle
    /\ ActorIdle
    /\ OpsIdle /\ FilesIdle

Next ==
    \/ \E w \in Workers : get_background_session_call(w)
    \/ \E w \in Workers : get_background_session_lock(w)
    \/ \E w \in Workers : get_background_session_scan(w)
    \/ \E w \in Workers : get_background_session_grow(w)
    \/ \E w \in Workers : get_background_session_sleep(w)
    \/ \E w \in Workers : get_background_session_establish(w)
    \/ \E w \in Workers : get_background_session_round_robin(w)
    \/ \E w \in Workers : worker_lock(w)
    \/ \E w \in Workers : worker_release(w)
    \/ \E s \in Sessions : connection_lost(s)
    \/ main_connection_lost
    \/ cleanup_disconnected_call
    \/ cleanup_disconnected_lock
    \/ cleanup_disconnected_session_lock
    \/ cleanup_disconnected_probe
    \/ cleanup_disconnected_done
    \/ cleanup_disconnected_empty
    \/ cleanup_disconnected_ensure
    \/ heartbeat_check_call
    \/ heartbeat_check_probe
    \/ heartbeat_check_rebuild_main
    \/ close_all_main
    \/ close_all_lock
    \/ close_all_session_lock
    \/ close_all_teardown
    \/ close_all_done
    \/ rebuild_all_main
    \/ rebuild_all_clear

Spec == Init /\ [][Next]_vars

\* The same pool, configured with a capacity of at least one.
InitCap == Init /\ max_background_sessions >= 1

SpecCap == InitCap /\ [][Next]_vars

\* One connection: established with retry, then torn down by its owner.
InitConn ==
    /\ PoolInit
    /\ max_background_sessions = MaxCapacity
    /\ jump_host \in JumpHosts
    /\ ConnIdle
    /\ target_host \in Hosts
    /\ known_hosts \in SUBSET (Hosts \X HostKeys)
    /\ vhk = NoCheck
    /\ auth_type \in AuthTypes
    /\ key_auth = NoKeyAuth
    /\ ActorIdle
    /\ OpsIdle /\ FilesIdle

SpecConn == InitConn /\ [][ConnNext]_vars

\* Establishment and teardown with a forwarding thread that keeps running
\* while it has a step to take.
SpecFwd == InitConn /\ [][ConnNext]_vars /\ WF_vars(FwdThread)

\* The actor with its clients and the remote end of its shell.
InitQuiet ==
    /\ PoolInit
    /\ max_background_sessions = MaxCapacity
    /\ jump_host = "none"
    /\ ConnIdle
    /\ TrustIdle /\ AuthIdle
    /\ ActorIdle
    /\ OpsIdle /\ FilesIdle

SpecActor == InitQuiet /\ [][ActorNext]_vars

\* Worker operations against the transport.
SpecOps == InitQuiet /\ [][OpsNext]_vars

\* Transfers with their workers and one cancel_transfer each.
SpecTransfer == InitQuiet /\ [][TransferNext]_vars

\* A fresh pool of capacity at least one and callers that ask for a
\* background session one after the other and keep what they were given.
CallerNames == <<"c1", "c2", "c3", "c4", "c5", "c6", "c7">>

Caller(k) == CallerNames[k]

SeqCallers == {Caller(k) : k \in 1..MaxCalls}

\* command.rs:44-48  the caller holds its session's lock, or is blocked in
\* bg_session.lock() on a session somebody else holds
Holding(w) ==
    \/ pc[w] = "locked"
    \/ pc[w] = "got" /\ session_lock[held[w]] # NoThread

InitSeq ==
    /\ max_background_sessions \in 1..MaxCapacity
    /\ background_sessions = <<>>
    /\ next_bg_index = 0
    /\ list_lock = NoThread
    /\ list_poisoned = FALSE
    /\ session_lock = [s \in Sessions |-> NoThread]
    /\ conn = [s \in Sessions |-> "unborn"]
    /\ main_conn = "live"
    /\ next_id = 1
    /\ pc = [w \in SeqCallers |-> "idle"]
    /\ held = [w \in SeqCallers |-> NoSession]
    /\ scan_i = 0
    /\ drain_q = <<>>
    /\ got_path = [w \in SeqCallers |-> "none"]
    /\ got_busy = [w \in SeqCallers |-> FALSE]
    /\ disconnect_pc = "none"
    /\ TransferIdle
    /\ ShellThreadIdle
    /\ StoreIdle
    /\ jump_host = "none"
    /\ ConnIdle
    /\ TrustIdle /\ AuthIdle
    /\ ActorIdle
    /\ OpsIdle /\ FilesIdle

\* the k-th call is made once every earlier caller holds its session
sequential_call(k) ==
    /\ \A j \in 1..(k - 1) : Holding(Caller(j))
    /\ get_background_session_call(Caller(k))

NextSeq ==
    \/ \E k \in 1..MaxCalls : sequential_call(k)
    \/ \E w \in SeqCallers : get_background_session_lock(w)
    \/ \E w \in SeqCallers : get_background_session_scan(w)
    \/ \E w \in SeqCallers : get_background_session_grow(w)
    \/ \E w \in SeqCallers : get_background_session_sleep(w)
    \/ \E w \in SeqCallers : get_background_session_establish(w)
    \/ \E w \in SeqCallers : get_background_session_round_robin(w)
    \/ \E w \in SeqCallers : worker_lock(w)
    \/ \E s \in Sessions : connection_lost(s)

SpecSeq == InitSeq /\ [][NextSeq]_vars

\* One transfer request over every source, partial destination and digest
\* tool.
InitResume ==
    /\ PoolInit
    /\ max_background_sessions = MaxCapacity
    /\ jump_host = "none"
    /\ ConnIdle
    /\ TrustIdle /\ AuthIdle
    /\ ActorIdle
    /\ OpsIdle
    /\ rs_in \in [resume : BOOLEAN, src : Contents, exists : BOOLEAN,
                  dst : Contents, tool : DigestTools]
    /\ ~rs_in.exists => rs_in.dst = <<>>
    /\ rs_out = NoOut
    /\ RmIdle
    /\ RetryIdle /\ SwIdle

SpecResume == InitResume /\ [][ResumeNext]_vars

\* One recursive delete over every tree of the bounded shape; the call is
\* sequential code, so it keeps taking steps until it returns.
InitRm ==
    /\ PoolInit
    /\ max_background_sessions = MaxCapacity
    /\ jump_host = "none"
    /\ ConnIdle
    /\ TrustIdle /\ AuthIdle
    /\ ActorIdle
    /\ OpsIdle
    /\ ResumeIdle
    /\ RetryIdle /\ SwIdle
    /\ rm_tree \in Trees
    /\ rm_fs = rm_tree
    /\ rm_stack = <<>>
    /\ rm_log = <<>>
    /\ rm_pc = "idle"

SpecRm == InitRm /\ [][RmNext]_vars /\ WF_vars(RmNext)

\* One ssh2_retry call over every script of outcomes of f; the loop is
\* sequential code, so it keeps taking steps.
InitRetry ==
    /\ PoolInit
    /\ max_background_sessions = MaxCapacity
    /\ jump_host = "none"
    /\ ConnIdle
    /\ TrustIdle /\ AuthIdle
    /\ ActorIdle
    /\ OpsIdle
    /\ ResumeIdle /\ RmIdle /\ SwIdle
    /\ rt_script \in Scripts
    /\ rt_calls = 0
    /\ rt_pc = "call"
    /\ rt_ret = "none"

SpecRetry == InitRetry /\ [][RetryNext]_vars /\ WF_vars(RetryNext)

\* Shell writes handled one after the other on an Open shell.
InitShellWrite ==
    /\ PoolInit
    /\ max_background_sessions = MaxCapacity
    /\ jump_host = "none"
    /\ ConnIdle
    /\ TrustIdle /\ AuthIdle
    /\ ActorIdle
    /\ OpsIdle /\ FilesIdle

SpecShellWrite == InitShellWrite /\ [][ShellWriteNext]_vars

(***************************************************************************)
(* disconnect(id) (client.rs:216-240) against the monitor task             *)
(* (client.rs:168-185)                                                     *)
(***************************************************************************)
\* client.rs:174, 178  monitor_signal.load(Ordering::Relaxed)
MonitorSignal == disconnect_pc # "none"

\* disconnect has returned: close_all ran to its end after the signal
DisconnectReturned == disconnect_pc = "closing" /\ pc[Admin] = "idle"

\* client.rs:226  client.shutdown_signal.store(true, Ordering::Relaxed)
disconnect_signal ==
    /\ disconnect_pc = "none"
    /\ pc[Admin] = "idle"
    /\ disconnect_pc' = "signalled"
    /\ UNCHANGED transferVars
    /\ UNCHANGED shellThreadVars
    /\ UNCHANGED storeVars
    /\ UNCHANGED poolVars
    /\ UNCHANGED notClient

\* client.rs:234-235  pool.close_all(), starting with the primary
disconnect_close_all ==
    /\ disconnect_pc = "signalled"
    /\ close_all_main_step
    /\ disconnect_pc' = "closing"
    /\ UNCHANGED transferVars
    /\ UNCHANGED shellThreadVars
    /\ UNCHANGED storeVars
    /\ UNCHANGED notClient

\* client.rs:173-176  cleanup tick: the signal is clear, cleanup_disconnected
\* is called
monitor_cleanup_tick ==
    /\ ~MonitorSignal
    /\ cleanup_disconnected_call

\* client.rs:177-182  heartbeat tick: the signal is clear, heartbeat_check is
\* called
monitor_heartbeat_tick ==
    /\ ~MonitorSignal
    /\ heartbeat_check_call

\* client.rs:174, 178  a tick finds the signal set: break
monitor_break ==
    /\ MonitorSignal
    /\ pc[Monitor] = "idle"
    /\ pc' = [pc EXCEPT ![Monitor] = "stopped"]
    /\ UNCHANGED <<max_background_sessions, background_sessions, next_bg_index,
                   list_lock, list_poisoned, session_lock, conn, main_conn,
                   next_id, held, scan_i, drain_q, got_path, got_busy>>
    /\ UNCHANGED notPool

DisconnectNext ==
    \/ disconnect_signal
    \/ disconnect_close_all
    \/ close_all_lock
    \/ close_all_session_lock
    \/ close_all_teardown
    \/ close_all_done
    \/ monitor_cleanup_tick
    \/ monitor_heartbeat_tick
    \/ monitor_break
    \/ cleanup_disconnected_lock
    \/ cleanup_disconnected_session_lock
    \/ cleanup_disconnected_probe
    \/ cleanup_disconnected_done
    \/ cleanup_disconnected_empty
    \/ cleanup_disconnected_ensure
    \/ heartbeat_check_probe
    \/ heartbeat_check_rebuild_main
    \/ \E s \in Sessions : connection_lost(s)
    \/ main_connection_lost

\* A connected client, its monitor task, and one disconnect(id).
SpecDisconnect == InitCap /\ [][DisconnectNext]_vars

(***************************************************************************)
(* The shell thread (terminal.rs:52-150) on the primary slot that          *)
(* rebuild_main (connection.rs:260-274) refills                            *)
(***************************************************************************)
\* terminal.rs:79-103  channel_session() on the session that is in the
\* primary slot at that moment, then request_pty and shell; a failure emits
\* term-exit and ends the thread
start_shell_open ==
    /\ shell_tpc = "starting"
    /\ \E ok \in BOOLEAN :
        IF ok /\ main_conn = "live"
        THEN shell_tpc' = "open" /\ shell_gen' = main_gen
        ELSE shell_tpc' = "exited" /\ UNCHANGED shell_gen
    /\ UNCHANGED <<main_gen, disconnect_pc, transferVars, storeVars>>
    /\ UNCHANGED <<poolVars, notClient>>

\* terminal.rs:108-124, 140, 146  the loop ends on EOF, on a read error or on
\* ShellMsg::Exit; nothing opens a channel again
shell_loop_exit ==
    /\ shell_tpc = "open"
    /\ shell_tpc' = "exited"
    /\ UNCHANGED <<main_gen, shell_gen, disconnect_pc, transferVars, storeVars>>
    /\ UNCHANGED <<poolVars, notClient>>

\* connection.rs:266  *main_sess = new_session: the slot holds a new
\* session, the old one is dropped (and disconnected by Drop)
SlotRefilled(gen, replaced) == IF replaced THEN gen + 1 ELSE gen

\* connection.rs:181-183  heartbeat_check's rebuild_main
shell_heartbeat_rebuild ==
    /\ main_gen < MaxRebuilds
    /\ heartbeat_check_rebuild_main_step
    /\ main_gen' = SlotRefilled(main_gen, pc'[Monitor] = "cl_lock")
    /\ UNCHANGED <<shell_gen, shell_tpc, disconnect_pc, transferVars, storeVars>>
    /\ UNCHANGED notClient

\* connection.rs:279  rebuild_all's rebuild_main
shell_rebuild_all ==
    /\ main_gen < MaxRebuilds
    /\ rebuild_all_main_step
    /\ main_gen' = SlotRefilled(main_gen, pc'[Admin] = "ra_clear")
    /\ UNCHANGED <<shell_gen, shell_tpc, disconnect_pc, transferVars, storeVars>>
    /\ UNCHANGED notClient

ShellThreadNext ==
    \/ start_shell_open
    \/ shell_loop_exit
    \/ shell_heartbeat_rebuild
    \/ shell_rebuild_all
    \/ rebuild_all_clear
    \/ main_connection_lost
    \/ heartbeat_check_call
    \/ heartbeat_check_probe
    \/ cleanup_disconnected_lock
    \/ cleanup_disconnected_session_lock
    \/ cleanup_disconnected_probe
    \/ cleanup_disconnected_done
    \/ cleanup_disconnected_empty
    \/ cleanup_disconnected_ensure
    \/ close_all_main
    \/ close_all_lock
    \/ close_all_session_lock
    \/ close_all_teardown
    \/ close_all_done

\* The shell thread of a connected client, the monitor's heartbeat and
\* cleanup_and_reconnect.
SpecShellThread == InitCap /\ [][ShellThreadNext]_vars

(***************************************************************************)
(* verify_host_key (connection.rs:604-680) run by several establish        *)
(* attempts at once on the one known_hosts file                            *)
(***************************************************************************)
\* connection.rs:627-631  read_file: the call loads the file as it is now
verify_read_file(v) ==
    /\ vk_pc[v] = "idle"
    /\ \E h \in Hosts : vk_host' = [vk_host EXCEPT ![v] = h]
    /\ vk_mem' = [vk_mem EXCEPT ![v] = kh_file]
    /\ vk_pc' = [vk_pc EXCEPT ![v] = "loaded"]
    /\ UNCHANGED <<kh_file, kh_added>>
    /\ UNCHANGED <<disconnect_pc, transferVars, shellThreadVars>>
    /\ UNCHANGED <<poolVars, notClient>>

\* connection.rs:633-646  check_port on the loaded entries; NotFound adds
\* the presented key in memory, Match and Mismatch return
verify_check_port(v) ==
    /\ vk_pc[v] = "loaded"
    /\ \E k \in HostKeys :
        IF CheckPort(vk_mem[v], vk_host[v], k) = "NotFound"
        THEN /\ vk_mem' = [vk_mem EXCEPT ![v] = @ \cup {<<vk_host[v], k>>}]
             /\ vk_pc' = [vk_pc EXCEPT ![v] = "added"]
        ELSE /\ vk_pc' = [vk_pc EXCEPT ![v] = "done"]
             /\ UNCHANGED vk_mem
    /\ UNCHANGED <<kh_file, kh_added, vk_host>>
    /\ UNCHANGED <<disconnect_pc, transferVars, shellThreadVars>>
    /\ UNCHANGED <<poolVars, notClient>>

\* connection.rs:648-654  write_file: the file becomes what the call holds
\* in memory
verify_write_file(v) ==
    /\ vk_pc[v] = "added"
    /\ kh_file' = vk_mem[v]
    /\ kh_added' = kh_added \cup {e \in vk_mem[v] : e[1] = vk_host[v]}
    /\ vk_pc' = [vk_pc EXCEPT ![v] = "done"]
    /\ UNCHANGED <<vk_mem, vk_host>>
    /\ UNCHANGED <<disconnect_pc, transferVars, shellThreadVars>>
    /\ UNCHANGED <<poolVars, notClient>>

StoreNext ==
    \/ \E v \in Verifiers : verify_read_file(v)
    \/ \E v \in Verifiers : verify_check_port(v)
    \/ \E v \in Verifiers : verify_write_file(v)

\* Establish attempts of several pools verifying host keys at once.
SpecStore == InitQuiet /\ [][StoreNext]_vars

(***************************************************************************)
(* Properties of the pool                                                  *)
(***************************************************************************)
\* steps at which a thread is inside connection establishment, a liveness
\* probe, a disconnect/join or a sleep
IoSteps == {"gb_sleep", "gb_establish", "cl_probe", "cl_ensure", "ca_teardown"}

LiveSessions == {s \in Sessions : conn[s] = "live"}

\* C1 (as claimed): get_background_session never hands a caller a session
\* whose lock another caller still holds at that moment.
C1_NeverHandedLockedSession ==
    \A w \in Workers : ~got_busy[w]

\* C1 (amended): a session that is locked at the moment get_background_session
\* selects it is selected only by the round-robin fallback; the idle path and
\* the creation path hand out a session that nobody has locked at that moment.
C1_BusyOnlyByRoundRobin ==
    \A w \in Workers : got_busy[w] => got_path[w] = "rr"

\* C1 witness: a caller holds a session's lock and the other caller has been
\* handed that same session by the round-robin fallback.
C1_RoundRobinHandsOutBusy ==
    \E a \in Workers : \E b \in Workers :
        /\ a # b
        /\ pc[a] = "locked"
        /\ held[b] = held[a]
        /\ got_path[b] = "rr"
        /\ got_busy[b]

\* C2 (as claimed): the number of live background sessions, listed or only
\* held by a caller, never exceeds max_background_sessions.
C2_LiveSessionsWithinCapacity ==
    Cardinality(LiveSessions) <= max_background_sessions

C4_NoIoUnderListLock ==
    \A t \in Threads : list_lock = t => pc[t] \notin IoSteps

(***************************************************************************)
(* Properties of establishment and teardown                                *)
(***************************************************************************)
\* stages at which an attempt fails on a socket or on a connect timeout
SocketStages == {"jump_connect", "bind", "local_connect", "connect"}

\* C5 (as claimed): a further attempt is started only after a failure at the
\* socket/timeout stage; a handshake, host-key or authentication failure is
\* never followed by a back-off and a new attempt.
C5_RetryOnlyAfterSocketFailure ==
    epc = "backoff" => last_err \in SocketStages

\* C6 (as claimed): once a session that has a forwarding thread is being torn
\* down, neither the bastion nor the target session is disconnected before
\* the shutdown flag is set and the thread is joined, and the listener is
\* unblocked only after both sessions are disconnected.
C6_JoinBeforeDisconnect ==
    /\ (fwd # "none" /\ (sess = "disconnected" \/ jump_sess = "disconnected"))
            => (shutdown_signal /\ joined)
    /\ listener = "unblocked"
            => (sess = "disconnected" /\ jump_sess = "disconnected")

\* C7 (as claimed): an attempt that fails after it spawned the forwarding
\* thread returns with the shutdown flag set, the thread joined and the
\* bastion session disconnected.
C7_FailedAttemptReleases ==
    ret.spawned => (ret.signal /\ ret.joined /\ ret.jump = "disconnected")

(***************************************************************************)
(* Properties of the actor                                                 *)
(***************************************************************************)
\* C8 (as claimed): a ShellWrite sent while a long command is in progress is
\* received by the actor before that command completes, so it is never still
\* queued once the actor has left the command's handler.
C8_ShellWriteDispatchedDuringTransfer ==
    \A i \in 1..Len(queue) :
        (queue[i].cmd = "ShellWrite" /\ queue[i].during) => apc = "xfer"

\* C9 (as claimed): the shell is Open after a successful ShellOpen and stays
\* Open across ShellWrite, ShellResize and forwarded output; after EOF or a
\* read error the sink has been told and channel and sender are cleared;
\* after ShellClose channel and sender are cleared.
C9_ShellStateMachine ==
    /\ shell_event \in {"ShellOpen", "ShellWrite", "ShellResize", "data"}
            => shell_channel = "open"
    /\ shell_event \in {"eof", "error"}
            => (sink = "Exit" /\ shell_channel = "none" /\ shell_sender = "none")
    /\ shell_event = "ShellClose"
            => (shell_channel = "none" /\ shell_sender = "none")

(***************************************************************************)
(* Properties of the worker operations                                     *)
(***************************************************************************)
\* C10 (as claimed): no operation returns a transient would-block to its
\* caller; every transport call is retried until it yields a value or
\* another error.
C10_WouldBlockNeverSurfaced ==
    \A o \in Ops : op_result[o] # "WouldBlock"

C12_SequentialCallsRoundRobin ==
    \A k \in 1..MaxCalls :
        pc[Caller(k)] \in {"got", "locked"} =>
            /\ held[Caller(k)] = ((k - 1) % max_background_sessions) + 1
            /\ got_path[Caller(k)] =
                  IF k <= max_background_sessions THEN "new" ELSE "rr"

\* C12 witness: capacity 2, three calls made, returning sessions 1, 2, 1.
C12_ThreeCallsOneTwoOne ==
    /\ max_background_sessions = 2
    /\ pc[Caller(1)] = "locked" /\ held[Caller(1)] = 1
    /\ pc[Caller(2)] = "locked" /\ held[Caller(2)] = 2
    /\ pc[Caller(3)] = "got" /\ held[Caller(3)] = 1
    /\ got_path[Caller(3)] = "rr"

EstablishSteps ==
    {"connect", "handshake", "host_key", "auth", "keepalive", "nonblocking"}

\* C15: a ManagedSession exists only when the attempt that returned it
\* completed socket connect, handshake, host-key verification,
\* authentication, keepalive enabling and the switch to non-blocking mode;
\* an attempt that failed at a step has returned an error and no session.
C15_SessionOnlyAfterAllSteps ==
    /\ sess = "ready" => EstablishSteps \subseteq completed
    /\ epc = "done_ok" => EstablishSteps \subseteq completed
    /\ epc \in {"backoff", "done_err"} => (sess = "none" /\ last_err # "none")

\* C15 witness: the first attempt failed in the handshake, the second one
\* ran every step and returned the session.
C15_SecondAttemptRanEveryStep ==
    /\ sess = "ready"
    /\ epc = "done_ok"
    /\ attempt = 2
    /\ last_err = "handshake"
    /\ completed = EstablishSteps

(***************************************************************************)
(* Properties of file operations                                           *)
(***************************************************************************)
\* C16: with resume requested and a shorter partial destination present,
\* a transfer starts at the partial length only when the digest of the
\* partial file equals the digest of the source prefix of that length, and
\* starts at 0 when they differ or no digest is obtained.
C16_ResumeOnlyOnMatchingDigest ==
    (/\ rs_out.impl # "none"
     /\ rs_in.resume
     /\ rs_in.exists
     /\ Len(rs_in.dst) < Len(rs_in.src)) =>
        LET n == Len(rs_in.dst)
            obtained == rs_in.tool \in {"sha256", "md5"}
            matches == /\ obtained
                       /\ Digest(rs_in.tool, rs_in.dst)
                              = Digest(rs_in.tool, Prefix(rs_in.src, n))
        IN /\ (rs_out.offset = n /\ n > 0) => matches
           /\ ~matches => rs_out.offset = 0

Issued(call) == {i \in 1..Len(rm_log) : rm_log[i].call = call}

Existing(kind) == {p \in Paths : rm_tree[p] = kind}

\* every unlink and rmdir issued so far names a distinct entry of its kind,
\* and a directory is removed only after everything below it
RmOrderly ==
    /\ \A i, j \in 1..Len(rm_log) : rm_log[i].path = rm_log[j].path => i = j
    /\ \A i \in Issued("unlink") : rm_tree[rm_log[i].path] = "file"
    /\ \A i \in Issued("rmdir") :
        /\ rm_tree[rm_log[i].path] = "dir"
        /\ \A q \in Paths :
            (rm_tree[q] # "none" /\ IsBelow(q, rm_log[i].path)) =>
                \E j \in 1..(i - 1) : rm_log[j].path = q

\* the delete has returned having issued one unlink per file and one rmdir
\* per directory
RmComplete ==
    rm_pc = "done" =>
        /\ Cardinality(Issued("unlink")) = Cardinality(Existing("file"))
        /\ Cardinality(Issued("rmdir")) = Cardinality(Existing("dir"))
        /\ \A p \in Paths : rm_fs[p] = "none"

\* C17: a recursive delete of a tree with N files and M directories, every
\* call succeeding, issues exactly N unlink and M rmdir calls, removes each
\* directory only after all of its descendants, and returns.
C17_RecursiveDeleteCountsAndOrder ==
    /\ [](RmOrderly /\ RmComplete)
    /\ <>(rm_pc = "done")

\* C17 witness: a tree with two files and two directories has been deleted
\* with four calls, the root last.
C17_TwoFilesTwoDirsDeleted ==
    /\ rm_pc = "done"
    /\ Cardinality(Existing("file")) = 2
    /\ Cardinality(Existing("dir")) = 2
    /\ rm_tree[<<"x", "y">>] = "file"
    /\ Len(rm_log) = 4
    /\ rm_log[4] = [call |-> "rmdir", path |-> <<>>]

(***************************************************************************)
(* Properties of session use                                               *)
(***************************************************************************)
\* the threads that are between their first and their last transport call
\* on session s: a worker inside its closure, the monitor probing s, the
\* admin tearing s down
UsersOf(s) ==
    {w \in Workers : pc[w] = "locked" /\ held[w] = s}
    \cup (IF pc[Monitor] = "cl_probe" /\ scan_i \in 1..Len(background_sessions)
             /\ background_sessions[scan_i] = s
          THEN {Monitor} ELSE {})
    \cup (IF pc[Admin] = "ca_teardown" /\ drain_q # <<>> /\ Head(drain_q) = s
          THEN {Admin} ELSE {})

\* C18: a worker operation works on the one session it acquired and holds
\* that session's lock for as long as it makes transport calls, so at any
\* moment at most one thread makes transport calls on a session.
C18_OneUserPerSession ==
    \A s \in Sessions :
        /\ Cardinality(UsersOf(s)) <= 1
        /\ \A t \in UsersOf(s) : session_lock[s] = t

\* C18 witness: two workers were handed the same session; one is inside its
\* operation and the other waits for the lock.
C18_SecondWorkerWaits ==
    /\ pc["w1"] = "locked"
    /\ pc["w2"] = "got"
    /\ held["w1"] = held["w2"]
    /\ session_lock[held["w1"]] = "w1"

(***************************************************************************)
(* Properties of key authentication                                        *)
(***************************************************************************)
\* C19: once an establish attempt with key authentication has written its
\* transient private-key file, it returns (with a session or with any
\* error) leaving neither the transient private-key file nor the transient
\* public-key file behind.
C19_NoTransientKeyFilesLeft ==
    (key_auth.outcome \in {"ppk", "parse_failed", "write_pub_failed",
                           "auth_failed", "auth_ok"}) =>
        (~key_auth.key /\ ~key_auth.pub)

(***************************************************************************)
(* Properties of the cleanup tick                                          *)
(***************************************************************************)
\* the probe step keeps the probed session exactly when its probe succeeds
\* and touches no other element
CleanupProbeStep ==
    (pc[Monitor] = "cl_probe" /\ pc'[Monitor] = "cl_retain") =>
        LET s == background_sessions[scan_i]
        IN /\ ProbeOk(conn[s]) => background_sessions' = background_sessions
           /\ ~ProbeOk(conn[s]) =>
                background_sessions' = RemoveAt(background_sessions, scan_i)

\* the locked block of cleanup_disconnected is over and the call returns
CleanupReturns ==
    pc[Monitor] \in {"cl_retain", "cl_ensure"} /\ pc'[Monitor] = "idle"

\* C20: cleanup_disconnected removes exactly the sessions whose probe
\* fails, keeps every session whose probe succeeds, and the list holds at
\* least one session when it returns.
C20_CleanupLeavesOneSession ==
    [][CleanupProbeStep /\ (CleanupReturns => background_sessions' # <<>>)]_vars

(***************************************************************************)
(* Properties of the heartbeat tick                                        *)
(***************************************************************************)
\* the monitor leaves a step of heartbeat_check
HeartbeatStep ==
    pc[Monitor] \in {"hb_probe", "hb_establish"} /\ pc'[Monitor] # pc[Monitor]

\* C21: every heartbeat_check probes the primary, replaces a primary whose
\* probe failed with a newly established session, and then goes on to the
\* cleanup of the background sessions, rebuilt primary or not.
C21_HeartbeatAlwaysCleansUp ==
    [][HeartbeatStep =>
        /\ pc[Monitor] = "hb_probe" =>
             pc'[Monitor] = (IF ProbeOk(main_conn) THEN "cl_lock" ELSE "hb_establish")
        /\ pc[Monitor] = "hb_establish" =>
             (main_conn' = "live" /\ pc'[Monitor] = "cl_lock")]_vars

(***************************************************************************)
(* Properties of the selection in get_background_session                   *)
(***************************************************************************)
AllLocked == \A s \in Range(background_sessions) : session_lock[s] # NoThread

\* worker w leaves the idle scan for the creation path
TakesCreationPath(w) ==
    pc[w] = "gb_scan" /\ pc'[w] \in {"gb_sleep", "gb_establish"}

\* worker w leaves the idle scan through the round-robin fallback
TakesRoundRobin(w) ==
    pc[w] = "gb_scan" /\ pc'[w] = "got" /\ got_path'[w] = "rr"

\* worker w makes one try_lock of the idle scan
TriesNext(w) ==
    /\ pc[w] = "gb_scan"
    /\ list_lock = w
    /\ scan_i <= Len(background_sessions)
    /\ (pc'[w] # pc[w] \/ scan_i' # scan_i)

\* C22 (as claimed): the creation path and the round-robin fallback are
\* taken only while every listed session is locked, below capacity for the
\* one and at capacity for the other.
C22_NewOrFallbackOnlyWhenAllLocked ==
    [][\A w \in Workers :
        /\ TakesCreationPath(w) =>
             (AllLocked /\ Len(background_sessions) < max_background_sessions)
        /\ TakesRoundRobin(w) =>
             (AllLocked /\ Len(background_sessions) >= max_background_sessions)]_vars

\* C22 (amended): a listed session whose try_lock succeeds is returned at
\* once and nothing is established; the creation path is taken only after
\* the try_lock of every listed session has failed and the list is below
\* capacity, the round-robin fallback only after every try_lock has failed
\* and the list is at capacity.
C22_SelectionFollowsTryLock ==
    [][\A w \in Workers :
        /\ TriesNext(w) =>
             IF session_lock[background_sessions[scan_i]] = NoThread
             THEN /\ pc'[w] = "got"
                  /\ held'[w] = background_sessions[scan_i]
                  /\ got_path'[w] = "idle"
                  /\ background_sessions' = background_sessions
                  /\ next_id' = next_id
             ELSE /\ pc'[w] = "gb_scan"
                  /\ scan_i' = scan_i + 1
        /\ TakesCreationPath(w) =>
             /\ scan_i > Len(background_sessions)
             /\ Len(background_sessions) < max_background_sessions
        /\ TakesRoundRobin(w) =>
             /\ scan_i > Len(background_sessions)
             /\ Len(background_sessions) >= max_background_sessions]_vars

\* C22 witness: with one session listed and room for another, a worker was
\* handed the listed session by the idle scan and nothing was established.
C22_IdleSessionReturned ==
    \E w \in Workers :
        /\ pc[w] = "got"
        /\ got_path[w] = "idle"
        /\ max_background_sessions = 2
        /\ background_sessions = <<1>>
        /\ held[w] = 1
        /\ next_id = 2

(***************************************************************************)
(* Properties of the actor's non-shell commands                            *)
(***************************************************************************)
\* the handler of a non-shell command ends in this step with an error
CommandFails == reply' # reply /\ reply'.res = "error"

\* C23: when a non-shell command fails, its error goes out on its own
\* response channel and nowhere else: nothing is sent to the shell's
\* receiver, the actor goes on receiving, the shell state and the shutdown
\* flag are as before, and the pool is untouched.
C23_CommandFailureIsLocal ==
    [][CommandFails =>
        /\ reply'.n = 1
        /\ sink' = sink
        /\ apc' = "recv"
        /\ mgr_shutdown' = mgr_shutdown
        /\ shell_channel' = shell_channel
        /\ shell_sender' = shell_sender
        /\ main_conn' = main_conn
        /\ background_sessions' = background_sessions]_vars

\* C23 witness: a command failed while the shell was open, and the shell is
\* still open with the actor receiving.
C23_FailedWhileShellOpen ==
    /\ reply = [res |-> "error", n |-> 1]
    /\ shell_channel = "open"
    /\ shell_sender = "set"
    /\ apc = "recv"
    /\ ~mgr_shutdown

\* C24: a non-shell command that was dequeued and whose handler has
\* returned was answered with exactly one message, a result or an error;
\* while its handler runs nothing has been sent yet; no command is answered
\* twice.
C24_OneReplyPerCommand ==
    /\ reply.n <= 1
    /\ reply.res = "none" => reply.n = 0
    /\ reply.res = "pending" => (reply.n = 0 /\ apc = "xfer")
    /\ reply.res \in {"ok", "error"} => reply.n = 1
    /\ apc = "xfer" => reply.res = "pending"

\* C24 witness: a transfer that moved its chunks was answered once with its
\* result, and the actor has dequeued the next command since.
C24_ResultSentOnce ==
    /\ reply = [res |-> "ok", n |-> 1]
    /\ shell_event = "ShellWrite"
    /\ apc = "recv"
    /\ batch = 2

(***************************************************************************)
(* Properties of the session settings                                      *)
(***************************************************************************)
\* C25: in every establish attempt the target session, and the bastion
\* session likewise, is switched to non-blocking mode only after its
\* authentication succeeded and its keepalive was enabled; a session that
\* establish returned is in non-blocking mode.
C25_NonBlockingAfterAuthAndKeepalive ==
    /\ ~modes.sess.blocking => modes.sess.nb_after = {"auth", "keepalive"}
    /\ ~modes.jump.blocking => modes.jump.nb_after = {"auth", "keepalive"}
    /\ sess = "ready" => ~modes.sess.blocking
    /\ (sess = "ready" /\ UsesJump(jump_host)) => ~modes.jump.blocking

\* C25 witness: a session reached through a bastion was returned; both
\* sessions are authenticated, keep alive and are non-blocking.
C25_BothSessionsNonBlocking ==
    /\ sess = "ready"
    /\ epc = "done_ok"
    /\ UsesJump(jump_host)
    /\ modes.sess = [authed |-> TRUE, keepalive |-> TRUE, blocking |-> FALSE,
                     nb_after |-> {"auth", "keepalive"},
                     checked |-> TRUE, checked_first |-> TRUE]
    /\ modes.jump.authed /\ modes.jump.keepalive /\ ~modes.jump.blocking
    /\ modes.jump.nb_after = modes.sess.nb_after

(***************************************************************************)
(* Properties of the retry loop                                            *)
(***************************************************************************)
\* C26: establish_connection_with_retry makes at most three attempts and
\* returns with the first successful one; after the failed attempt with
\* zero-based index a < 2 it sleeps base delay * 2^a, and after the third
\* failure it returns without sleeping.
C26_ThreeAttemptsDoublingDelay ==
    /\ attempt <= 3
    /\ Len(delays) <= 2
    /\ \A a \in 0..(Len(delays) - 1) :
        delays[a + 1] = CONNECTION_RETRY_BASE_DELAY * Pow2(a)
    /\ epc = "backoff" => (attempt < 3 /\ Len(delays) = attempt - 1)
    /\ epc \notin {"idle", "backoff"} => Len(delays) = attempt - 1
    /\ epc = "done_err" => (attempt = 3 /\ delays = <<1000, 2000>>)

\* C26 witness: two attempts failed, the loop slept one and then two
\* seconds, and the third attempt returned the session.
C26_ThirdAttemptSucceeds ==
    /\ epc = "done_ok"
    /\ sess = "ready"
    /\ attempt = 3
    /\ delays = <<1000, 2000>>

(***************************************************************************)
(* Properties of the jump-host setting                                     *)
(***************************************************************************)
JumpStages == {"jump_connect", "jump_handshake", "jump_auth", "bind",
               "local_connect"}

\* C27: with the jump host absent or given as an empty string an establish
\* attempt takes the same steps, the direct ones: it connects directly,
\* creates no bastion session, no listener and no forwarding thread, and
\* ends the same way.
C27_EmptyJumpHostIsDirect ==
    /\ UsesJump("empty") = UsesJump("none")
    /\ FirstStep("empty") = FirstStep("none")
    /\ jump_host \in {"none", "empty"} =>
        /\ epc \notin JumpStages
        /\ last_err \notin JumpStages
        /\ jump_sess = "none"
        /\ listener = "none"
        /\ fwd = "none"
        /\ ~ret.spawned
        /\ ret.jump = "none"
        /\ modes.jump = NewSession

\* C27 witness: a config with an empty jump host got its session over a
\* direct connection.
C27_EmptyJumpHostConnected ==
    /\ jump_host = "empty"
    /\ sess = "ready"
    /\ epc = "done_ok"
    /\ completed = EstablishSteps
    /\ listener = "none"
    /\ jump_sess = "none"

(***************************************************************************)
(* Properties of ssh2_retry                                                *)
(***************************************************************************)
\* the calls of f that yield something other than would-block
Decisive == {k \in 1..Len(rt_script) : rt_script[k] # "WouldBlock"}

FirstDecisive == CHOOSE k \in Decisive : \A j \in Decisive : k <= j

\* what ssh2_retry has returned is the first outcome of f that is not
\* would-block, reached with one call per would-block before it plus one
RetryReturnsFirstDecisive ==
    /\ rt_ret # "WouldBlock"
    /\ rt_ret # "none" =>
        /\ Decisive # {}
        /\ rt_ret = rt_script[FirstDecisive]
        /\ rt_calls = (FirstDecisive - 1) + 1
        /\ \A k \in 1..(rt_calls - 1) : rt_script[k] = "WouldBlock"
    /\ rt_ret = "none" =>
        \A k \in 1..rt_calls : Yields(rt_script, k) = "WouldBlock"

\* C28: ssh2_retry(f) calls f until it yields Ok or an error other than
\* would-block and returns that outcome; it never returns would-block, it
\* makes one call per would-block result plus one, and it returns whenever
\* f eventually yields something other than would-block.
C28_RetryUntilDecisive ==
    /\ []RetryReturnsFirstDecisive
    /\ <>(Decisive # {} => rt_ret # "none")

\* C28 witness: f yielded would-block twice and then an error, which
\* ssh2_retry returned after three calls.
C28_ErrorAfterTwoWouldBlocks ==
    /\ rt_script = <<"WouldBlock", "WouldBlock", "Error">>
    /\ rt_ret = "Error"
    /\ rt_calls = 3

(***************************************************************************)
(* Properties of the forwarding thread                                     *)
(***************************************************************************)
\* C29 (as claimed): once the shutdown flag of a forwarding thread is set,
\* the thread ends, so that the join of teardown returns, in whichever phase
\* the flag finds it: accept, opening the channel or relaying, also while
\* writes keep returning would-block.
C29_ShutdownEndsForwardingThread ==
    shutdown_signal ~> (fwd = "exited")

(***************************************************************************)
(* Properties of the shell writes                                          *)
(***************************************************************************)
\* C30 (as claimed): every byte sequence submitted by a shell write while
\* the shell is Open has been written to the shell channel completely and in
\* submission order once its write is over, also when the non-blocking
\* channel reported would-block during the write.
C30_ShellWritesReachChannelWhole ==
    sw_pc = "recv" => sw_wire = sw_submitted

\* C31: over its whole lifetime a forwarding thread accepts at most one
\* connection on the local listener, it opens or uses a forwarded channel
\* only after that accept, and a thread whose accept loop ends on the
\* timeout or on the shutdown flag exits without a forwarded channel.
C31_AtMostOneAccept ==
    /\ accepts <= 1
    /\ fwd \in ({"channel"} \cup RelayPhases) => accepts = 1
    /\ accepts = 0 => fwd \in {"none", "accept", "exited"}

\* C31 witness: the thread gave up waiting before any connection arrived
\* and exited with no channel opened.
C31_AcceptTimedOut ==
    /\ fwd = "exited"
    /\ accepts = 0
    /\ listener = "bound"

(***************************************************************************)
(* Properties of the window between the idle probe and the caller's lock   *)
(***************************************************************************)
\* worker a was handed session s through the idle path and has not locked
\* it yet
AwaitsOwnLock(a, s) ==
    pc[a] = "got" /\ got_path[a] = "idle" /\ held[a] = s

\* worker b's idle scan returns session s in this step
IdleScanReturns(b, s) ==
    /\ pc[b] = "gb_scan"
    /\ pc'[b] = "got"
    /\ got_path'[b] = "idle"
    /\ held'[b] = s

\* another listed session is unlocked, or the list is below capacity
AlternativeAvailable(s) ==
    \/ \E o \in Range(background_sessions) : o # s /\ session_lock[o] = NoThread
    \/ Len(background_sessions) < max_background_sessions

\* C32 (as claimed): a session handed out through the idle path is reserved
\* for its caller: while that caller has not yet locked it, no other
\* get_background_session call returns the same session when another idle
\* session or spare capacity is available.
C32_IdleSessionReserved ==
    [][\A a \in Workers : \A b \in Workers : \A s \in Sessions :
        (a # b /\ AwaitsOwnLock(a, s) /\ IdleScanReturns(b, s))
            => ~AlternativeAvailable(s)]_vars

(***************************************************************************)
(* Properties of host-key checking before authentication                   *)
(***************************************************************************)
\* C33 (as claimed): no session is authenticated before its host key has
\* been checked against the trust store, the bastion session as well as the
\* target session.
C33_HostKeyCheckedBeforeAuth ==
    /\ modes.sess.authed => modes.sess.checked_first
    /\ modes.jump.authed => modes.jump.checked_first

(***************************************************************************)
(* Properties of disconnect against the monitor                            *)
(***************************************************************************)
\* C34 (as claimed): after disconnect(id) has returned, the monitor task
\* establishes no new session for the pool, neither a background session
\* nor a new primary, and the background list stays empty, however the
\* monitor's ticks interleave with disconnect.
C34_NothingEstablishedAfterDisconnect ==
    [][DisconnectReturned =>
        /\ background_sessions = <<>>
        /\ background_sessions' = <<>>
        /\ next_id' = next_id
        /\ main_conn' = "live" => main_conn = "live"]_vars

(***************************************************************************)
(* Properties of the transfer records                                      *)
(***************************************************************************)
LegalStatusMoves ==
    {<<"pending", "running">>, <<"running", "completed">>,
     <<"running", "cancelled">>, <<"running", "error">>}

\* C35 (as claimed): a transfer record's status only moves pending ->
\* running -> completed, cancelled or error, and a completed, cancelled or
\* error status never changes again, however cancel_transfer interleaves
\* with the transfer worker.
C35_StatusMovesForwardOnly ==
    [][\A x \in Transfers :
        ts_status'[x] # ts_status[x]
            => <<ts_status[x], ts_status'[x]>> \in LegalStatusMoves]_vars

(***************************************************************************)
(* Properties of the shell across a rebuilt primary                        *)
(***************************************************************************)
\* C36 (as claimed): after heartbeat_check or rebuild_all has replaced the
\* session in the primary slot, the shell channel in use belongs to the
\* session that is in the slot now, never to a replaced, disconnected one.
C36_ShellOnCurrentPrimary ==
    shell_tpc = "open" => shell_gen = main_gen

(***************************************************************************)
(* Properties of the trust store under concurrent attempts                 *)
(***************************************************************************)
\* C37 (as claimed): trust-store entries are never lost: once the attempts
\* that verified host keys concurrently have all finished, every entry that
\* one of them added (and with it every entry present before) is in the
\* store.
C37_NoTrustEntryLost ==
    (\A v \in Verifiers : vk_pc[v] \in {"idle", "done"}) => kh_added \subseteq kh_file

(***************************************************************************)
(* Properties of the lock order                                            *)
(***************************************************************************)
\* positions where a thread is about to take the background-list lock
ListWaitPcs == {"gb_lock", "cl_lock", "ca_lock", "ra_clear"}

\* thread t is blocked in background_sessions.lock()
WaitsList(t) == pc[t] \in ListWaitPcs /\ list_lock # NoThread

\* thread t is blocked in session.lock(): a worker on the session it was
\* handed, the monitor inside retain, close_all inside its drain
WaitsSession(t) ==
    \/ /\ t \in Workers
       /\ pc[t] = "got"
       /\ session_lock[held[t]] # NoThread
    \/ /\ t = Monitor
       /\ pc[t] = "cl_retain"
       /\ scan_i \in 1..Len(background_sessions)
       /\ session_lock[background_sessions[scan_i]] # NoThread
    \/ /\ t = Admin
       /\ pc[t] = "ca_drain"
       /\ drain_q # <<>>
       /\ session_lock[Head(drain_q)] # NoThread

Blocked(t) == WaitsList(t) \/ WaitsSession(t)

HoldsSession(t) == \E s \in Sessions : session_lock[s] = t

\* C38: the pool's threads never deadlock.  A thread that waits for the
\* list lock holds no session lock (and not the list lock itself), a thread
\* that holds a session lock waits for no lock, so locks are taken in the
\* order list, then session (the cursor is taken and released inside the
\* round-robin step, under the list lock); whenever some thread is blocked
\* a thread that holds a lock is not.
C38_LockOrderNoDeadlock ==
    /\ \A t \in Threads : WaitsList(t) => (~HoldsSession(t) /\ list_lock # t)
    /\ \A t \in Threads : HoldsSession(t) => ~Blocked(t)
    /\ (\E t \in Threads : Blocked(t)) =>
            \E u \in Threads :
                (HoldsSession(u) \/ list_lock = u) /\ ~Blocked(u)

\* C38 witness: the longest wait chain: a worker waits for the list lock,
\* which the monitor holds while it waits for a session that the other
\* worker has locked.
C38_WorkerBehindMonitorBehindWorker ==
    /\ pc["w1"] = "locked"
    /\ list_lock = Monitor
    /\ WaitsSession(Monitor)
    /\ background_sessions[scan_i] = held["w1"]
    /\ WaitsList("w2")

(***************************************************************************)
(* Properties of the actor's shutdown                                      *)
(***************************************************************************)
\* the actor takes a command off its channel and dispatches it
Dispatches == queue # <<>> /\ queue' = Tail(queue)

\* C39 (as claimed): once the actor has handled a Shutdown command it
\* dispatches no further command, also none that was queued behind the
\* Shutdown in the same batch; it leaves its loop, and after the loop the
\* shell channel is closed.
C39_NoDispatchAfterShutdown ==
    [][/\ mgr_shutdown => ~Dispatches
       /\ (mgr_shutdown /\ apc = "check") => apc' \in {"check", "cleanup"}
       /\ (apc = "cleanup" /\ apc' = "stopped") => shell_channel' = "none"]_vars

(***************************************************************************)
(* Properties of get_background_session's return value                     *)
(***************************************************************************)
\* C40 (as claimed): get_background_session returns a session or an error
\* value for every capacity and every list: no caller ends in a panic, the
\* list mutex is never poisoned, and the round-robin step is not taken
\* while the background list is empty, also when the capacity is 0.
C40_ReturnsSessionOrError ==
    /\ \A w \in Workers : pc[w] # "panicked"
    /\ ~list_poisoned
    /\ \A w \in Workers :
          (pc[w] = "gb_scan" /\ scan_i > Len(background_sessions)
              /\ ~BelowCapacity(background_sessions, max_background_sessions))
          => background_sessions # <<>>

====
